---- MODULE Spec2Model ----
(***************************************************************************)
(* Calendar interchange and scheduling engine of sog: the CalDAV record    *)
(* mapper (createICalEvent / parseICalEvent / parseICalTask) and the iTIP  *)
(* encoder/decoder (CreateInvite / ParseInvite / parseParticipant).        *)
(*                                                                         *)
(* Go strings are sequences of one-character strings.  A property value is *)
(* the record [kind, s, n]: kind "str" carries the characters s; the other *)
(* kinds stand for the text forms the go-ical property codec writes and    *)
(* reads: "utc" (20060102T150405Z, n seconds), "float" (20060102T150405,   *)
(* n wall-clock seconds), "date" (20060102, n days), "dur" (PT..S, n       *)
(* seconds), "int" (%d, n), "intx" (the integer n followed by the text s)  *)
(* and "bad" (text none of the parsers accept).                            *)
(* An instant is [t, off]: t ticks since Go's zero time, off the zone      *)
(* offset in seconds of the value's location.                              *)
(***************************************************************************)
EXTENDS Integers, Sequences, FiniteSets, TLC

VARIABLES
    localOff,   \* zone offset of time.Local in this process
    cal,        \* the *ical.Calendar held by the record mapper
    calSrc,     \* "none" | "create" | "createTask" (built here) | "server"
    ev,         \* the Event last passed to createICalEvent
    task,       \* the Task last passed to createICalTask
    evOut,      \* result of the last parseICalEvent: [state, event]
    taskOut,    \* result of the last parseICalTask: [state, task]
    inv,        \* the Invite last passed to CreateInvite
    wire,       \* the bytes handed to ParseInvite
    wireSrc,    \* "none" | "invite" | "reply" | "cancel" (built here) | "mail"
    invOut,     \* result of the last ParseInvite: [state, invite]
    resp,       \* the Response last passed to CreateReply
    cancel,     \* the arguments last passed to CreateCancel
    wireEvOut,  \* result of parseICalEvent on the decoded bytes: [state, event]
    objects,    \* the calendar objects QueryCalendar answers with: [Data, ETag]
    listOut,    \* the last ListEvents / ListTasks / GetEvent call and its result
    clock,      \* time.Now() of the tasks commands, in ticks
    lastCmd,    \* the last tasks or invite command: [op, uid, state]
    accounts,   \* Config.Accounts: the accounts by e-mail
    defaultAccount, \* Config.DefaultAccount
    stored,     \* the credential store: passwords by key
    env,        \* the environment variables of the process that are set
    cfgOut,     \* the last Config / password call and its result
    calls,      \* the encoder and decoder calls in flight, one per goroutine
    outbox,     \* the messages handed to the SMTP server, oldest first
    search      \* the last parseSearchQuery call: [query, out]

mapperVars == <<localOff, cal, calSrc, ev, task, evOut, taskOut, inv, wire, wireSrc, invOut,
          resp, cancel, wireEvOut>>
serverVars == <<objects, listOut>>
cliVars == <<clock, lastCmd>>
cfgVars == <<accounts, defaultAccount, stored, env, cfgOut>>
appVars == <<cfgVars, calls, outbox, search>>
vars == <<mapperVars, serverVars, cliVars, appVars>>

-----------------------------------------------------------------------------
(* Bounds of the model *)

TicksPerSec == 2        \* sub-second resolution of an instant
DaySecs == 4            \* seconds in a (scaled) calendar day
MaxSec == 5             \* largest second used by an input instant
MaxAttendees == 2       \* longest attendee list of an input record
MaxChildren == 2        \* most components in a server document
MaxSeq == 2             \* largest sequence number of an input Invite
MaxObjects == 2         \* most objects in an answer of QueryCalendar
MaxTasks == 2           \* most tasks added to the task list
MaxQueryLen == 3          \* characters of a search query
MaxMails == 3             \* invite commands run
MaxCommands == 4        \* most tasks commands in a run

-----------------------------------------------------------------------------
(* Strings *)

Mailto == <<"m", "a", "i", "l", "t", "o", ":">>

ToLowerChar(c) ==
    CASE c = "M" -> "m" [] c = "A" -> "a" [] c = "I" -> "i" [] c = "L" -> "l"
      [] c = "T" -> "t" [] c = "O" -> "o" [] c = "B" -> "b" [] c = "X" -> "x"
      [] OTHER -> c

ToLower(s) == [i \in 1..Len(s) |-> ToLowerChar(s[i])]

HasPrefix(s, p) == Len(s) >= Len(p) /\ SubSeq(s, 1, Len(p)) = p

\* strings.TrimPrefix: case-sensitive
TrimPrefix(s, p) == IF HasPrefix(s, p) THEN SubSeq(s, Len(p) + 1, Len(s)) ELSE s

\* strings.Split(s, ","): always at least one field
RECURSIVE SplitFrom(_, _, _)
SplitFrom(s, i, cur) ==
    IF i > Len(s) THEN <<cur>>
    ELSE IF s[i] = "," THEN <<cur>> \o SplitFrom(s, i + 1, <<>>)
    ELSE SplitFrom(s, i + 1, Append(cur, s[i]))

Split(s) == SplitFrom(s, 1, <<>>)

-----------------------------------------------------------------------------
(* Property codec (go-ical Prop), as the mapper calls it *)

StrVal(s) == [kind |-> "str", s |-> s, n |-> 0]
NumVal(k, n) == [kind |-> k, s |-> <<>>, n |-> n]
BadVal == [kind |-> "bad", s |-> <<"?">>, n |-> 0]

\* Params: the parameters of a property, [k, v] pairs in the order they were set
NoParams == <<>>

\* Params.Get: the value of the parameter, the empty string when it is absent
ParamGet(params, k) ==
    LET m == SelectSeq(params, LAMBDA q : q.k = k)
    IN  IF m = <<>> THEN <<>> ELSE m[1].v

ParamDel(params, k) == SelectSeq(params, LAMBDA q : q.k /= k)
ParamSet(params, k, v) == ParamDel(params, k) \o <<[k |-> k, v |-> v]>>

NewProp(name, v) == [name |-> name, value |-> v, params |-> NoParams]

\* Prop.SetText writes the RFC 5545 TEXT escape of the string
EscapeChar(c) ==
    IF c \in {"\\", ";", ","} THEN <<"\\", c>>
    ELSE IF c = "\n" THEN <<"\\", "n">>
    ELSE <<c>>

RECURSIVE EscapeText(_)
EscapeText(s) == IF s = <<>> THEN <<>> ELSE EscapeChar(Head(s)) \o EscapeText(Tail(s))

\* default value type of a property name
DefaultValueType(name) ==
    CASE name \in {"DTSTART", "DTEND", "DUE", "COMPLETED", "CREATED", "DTSTAMP"} -> <<"DATE-TIME">>
      [] name \in {"ORGANIZER", "ATTENDEE"} -> <<"CAL-ADDRESS">>
      [] name = "URL" -> <<"URI">>
      [] name = "DURATION" -> <<"DURATION">>
      [] name \in {"SEQUENCE", "PRIORITY", "PERCENT-COMPLETE"} -> <<"INTEGER">>
      [] OTHER -> <<"TEXT">>

\* Prop.SetValueType: the VALUE parameter is dropped when it is the default
SetValueType(params, name, t) ==
    IF t = DefaultValueType(name) THEN ParamDel(params, "VALUE")
    ELSE ParamSet(params, "VALUE", t)

\* Prop.ValueType
ValueType(prop) ==
    IF ParamGet(prop.params, "VALUE") = <<>> THEN DefaultValueType(prop.name)
    ELSE ParamGet(prop.params, "VALUE")

TextProp(name, s) ==
    [name |-> name, value |-> StrVal(EscapeText(s)),
     params |-> SetValueType(NoParams, name, <<"TEXT">>)]

IntProp(name, n) == NewProp(name, NumVal("int", n))

IsZero(x) == x.t = 0
ZeroTime == [t |-> 0, off |-> 0]

\* a value without time-of-day in its own location
IsMidnight(x) ==
    /\ x.t % TicksPerSec = 0
    /\ ((x.t \div TicksPerSec) + x.off) % DaySecs = 0

\* Prop.SetDateTime: UTC form, whole seconds
DateTimeProp(name, x) ==
    [name |-> name,
     value |-> NumVal("utc", x.t \div TicksPerSec),
     params |-> SetValueType(NoParams, name, <<"DATE-TIME">>)]

\* Prop.SetDate: the calendar date in the value's own location, VALUE=DATE
DateProp(name, x) ==
    [name |-> name,
     value |-> NumVal("date", ((x.t \div TicksPerSec) + x.off) \div DaySecs),
     params |-> SetValueType(NoParams, name, <<"DATE">>)]

\* Prop.DateTime(loc): [err, time]
PropDateTime(prop, loc) ==
    LET vt == ValueType(prop)
        v == prop.value
    IN  IF vt = <<"DATE">> /\ v.kind = "date"
            THEN [err |-> FALSE,
                  time |-> [t |-> (v.n * DaySecs - loc) * TicksPerSec, off |-> loc]]
        ELSE IF vt = <<"DATE-TIME">> /\ v.kind = "float"
            THEN [err |-> FALSE,
                  time |-> [t |-> (v.n - loc) * TicksPerSec, off |-> loc]]
        ELSE IF vt = <<"DATE-TIME">> /\ v.kind = "utc"
            THEN [err |-> FALSE, time |-> [t |-> v.n * TicksPerSec, off |-> 0]]
        ELSE [err |-> TRUE, time |-> ZeroTime]

\* Prop.Duration(): [err, secs]
PropDuration(prop) ==
    IF prop.value.kind = "dur" THEN [err |-> FALSE, secs |-> prop.value.n]
    ELSE [err |-> TRUE, secs |-> 0]

\* time.Time.Add
TimeAdd(x, secs) == [t |-> x.t + secs * TicksPerSec, off |-> x.off]

\* an integer followed by text that is no part of it, such as 2x
IntThenText(n, rest) == [kind |-> "intx", s |-> rest, n |-> n]

\* fmt.Sscanf(value, "%d", &field): the leading integer is stored, whatever
\* follows it; the field keeps its value when the text starts with none
Sscanf(v, old) == IF v.kind \in {"int", "intx"} THEN v.n ELSE old

-----------------------------------------------------------------------------
(* Props: the properties of a component, in the order they were added; the
   Go map from property name to list is read through Values and Get *)

NoProps == <<>>

Values(props, name) == SelectSeq(props, LAMBDA p : p.name = name)
Has(props, name) == Values(props, name) /= <<>>
Get(props, name) == Values(props, name)[1]

PropsDel(props, name) == SelectSeq(props, LAMBDA p : p.name /= name)

\* Props.Set: the property replaces every property of its name
PropsSet(props, prop) == PropsDel(props, prop.name) \o <<prop>>

\* Props.Add: the property is appended to those of its name
PropsAdd(props, prop) == Append(props, prop)

NilCalendar == [isNil |-> TRUE, props |-> NoProps, children |-> <<>>]

\* variant: the last child of the given kind is taken
LastChild(c, kind) ==
    LET idx == {i \in 1..Len(c.children) : c.children[i].name = kind}
    IN  IF idx = {} THEN 0 ELSE CHOOSE i \in idx : \A j \in idx : i >= j

\* variant: the first child is taken whatever its kind
FirstChildAnyKind(c, kind) == IF c.children = <<>> THEN 0 ELSE 1

\* index of the first child of the given kind, 0 when there is none
FirstChild(c, kind) ==
    LET idx == {i \in 1..Len(c.children) : c.children[i].name = kind}
    IN  IF idx = {} THEN 0 ELSE CHOOSE i \in idx : \A j \in idx : i <= j

-----------------------------------------------------------------------------
(* Record mapper: Event *)

\* the attendee loop of createICalEvent: Props.Add appends
RECURSIVE AddAttendees(_, _)
AddAttendees(props, attendees) ==
    IF attendees = <<>> THEN props
    ELSE AddAttendees(PropsAdd(props, NewProp("ATTENDEE", StrVal(Mailto \o Head(attendees)))),
                      Tail(attendees))

EventStartProp(event) ==
    IF event.AllDay THEN DateProp("DTSTART", event.Start)
    ELSE DateTimeProp("DTSTART", event.Start)

EventEndProp(event) ==
    IF event.AllDay THEN DateProp("DTEND", event.End)
    ELSE DateTimeProp("DTEND", event.End)

EventOrganizerProps(props, event) ==
    IF event.Organizer /= <<>>
    THEN PropsSet(props, TextProp("ORGANIZER", Mailto \o event.Organizer))
    ELSE props

createICalEvent(event, now) ==
    LET p1 == PropsSet(NoProps, TextProp("UID", event.UID))
        p2 == PropsSet(p1, TextProp("SUMMARY", event.Summary))
        p3 == IF event.Description /= <<>>
              THEN PropsSet(p2, TextProp("DESCRIPTION", event.Description))
              ELSE p2
        p4 == IF event.Location /= <<>>
              THEN PropsSet(p3, TextProp("LOCATION", event.Location))
              ELSE p3
        p5 == IF event.URL /= <<>>
              THEN PropsSet(p4, TextProp("URL", event.URL))
              ELSE p4
        p6 == IF event.Status /= <<>>
              THEN PropsSet(p5, TextProp("STATUS", event.Status))
              ELSE p5
        p7 == PropsSet(p6, EventStartProp(event))
        p8 == PropsSet(p7, EventEndProp(event))
        p9 == EventOrganizerProps(p8, event)
        p10 == AddAttendees(p9, event.Attendees)
        p11 == PropsSet(p10, DateTimeProp("DTSTAMP", now))
        calProps == PropsSet(PropsSet(NoProps, TextProp("VERSION", <<"2.0">>)),
                             TextProp("PRODID", <<"-//sog//CalDAV Client//EN">>))
    IN  [isNil |-> FALSE, props |-> calProps,
         children |-> <<[name |-> "VEVENT", props |-> p11]>>]

\* the organizer branch of parseICalEvent
EventOrganizer(props) ==
    IF Has(props, "ORGANIZER")
    THEN TrimPrefix(Get(props, "ORGANIZER").value.s, Mailto)
    ELSE <<>>

\* the attendee loop of parseICalEvent
EventAttendees(props) ==
    LET as == Values(props, "ATTENDEE")
    IN  [i \in 1..Len(as) |-> TrimPrefix(as[i].value.s, Mailto)]

\* the start branch: Start is set when the value parses
EventStart(props, loc) ==
    IF Has(props, "DTSTART")
    THEN LET r == PropDateTime(Get(props, "DTSTART"), loc)
         IN  IF r.err THEN ZeroTime ELSE r.time
    ELSE ZeroTime

\* variant: all-day is inferred from a start at midnight
EventAllDayFromClock(props) ==
    /\ Has(props, "DTSTART")
    /\ ~PropDateTime(Get(props, "DTSTART"), 0).err
    /\ IsMidnight(PropDateTime(Get(props, "DTSTART"), 0).time)

\* the start branch: AllDay is read from the VALUE parameter
EventAllDay(props) ==
    Has(props, "DTSTART") /\ ParamGet(Get(props, "DTSTART").params, "VALUE") = <<"DATE">>

\* variant: a DURATION, when it can be applied, wins over DTEND
EventEndDurationFirst(props, start, loc) ==
    IF Has(props, "DURATION") /\ ~PropDuration(Get(props, "DURATION")).err
       /\ ~IsZero(start)
    THEN TimeAdd(start, PropDuration(Get(props, "DURATION")).secs)
    ELSE IF Has(props, "DTEND") /\ ~PropDateTime(Get(props, "DTEND"), loc).err
    THEN PropDateTime(Get(props, "DTEND"), loc).time
    ELSE ZeroTime

\* the end branch: DTEND when present, else DURATION relative to Start
EventEnd(props, start, loc) ==
    IF Has(props, "DTEND")
    THEN LET r == PropDateTime(Get(props, "DTEND"), loc)
         IN  IF r.err THEN ZeroTime ELSE r.time
    ELSE IF Has(props, "DURATION")
    THEN LET d == PropDuration(Get(props, "DURATION"))
         IN  IF ~d.err /\ ~IsZero(start) THEN TimeAdd(start, d.secs) ELSE ZeroTime
    ELSE ZeroTime

TextOf(props, name) == IF Has(props, name) THEN Get(props, name).value.s ELSE <<>>

parseICalEvent(c, loc) ==
    IF c.isNil THEN [state |-> "err"]
    ELSE LET i == FirstChild(c, "VEVENT")
         IN  IF i = 0 THEN [state |-> "err"]
             ELSE LET props == c.children[i].props
                      start == EventStart(props, loc)
                  IN  [state |-> "ok",
                       event |->
                         [UID |-> TextOf(props, "UID"),
                          Summary |-> TextOf(props, "SUMMARY"),
                          Description |-> TextOf(props, "DESCRIPTION"),
                          Location |-> TextOf(props, "LOCATION"),
                          Organizer |-> EventOrganizer(props),
                          Status |-> TextOf(props, "STATUS"),
                          URL |-> TextOf(props, "URL"),
                          Start |-> start,
                          AllDay |-> EventAllDay(props),
                          End |-> EventEnd(props, start, loc),
                          Attendees |-> EventAttendees(props)]]

-----------------------------------------------------------------------------
(* Record mapper: Task *)

TaskStatusNeedsAction == <<"NEEDS-ACTION">>

\* one date branch of parseICalTask
TaskTime(props, name, loc) ==
    IF Has(props, name)
    THEN LET r == PropDateTime(Get(props, name), loc)
         IN  IF r.err THEN ZeroTime ELSE r.time
    ELSE ZeroTime

TaskInt(props, name) == IF Has(props, name) THEN Sscanf(Get(props, name).value, 0) ELSE 0

\* the fields parseICalTask takes from the first VTODO
TaskFromProps(props, loc) ==
    [UID |-> TextOf(props, "UID"),
     Summary |-> TextOf(props, "SUMMARY"),
     Description |-> TextOf(props, "DESCRIPTION"),
     Status |-> IF Has(props, "STATUS")
                THEN Get(props, "STATUS").value.s
                ELSE TaskStatusNeedsAction,
     Priority |-> TaskInt(props, "PRIORITY"),
     Percent |-> TaskInt(props, "PERCENT-COMPLETE"),
     Due |-> TaskTime(props, "DUE", loc),
     Start |-> TaskTime(props, "DTSTART", loc),
     Completed |-> TaskTime(props, "COMPLETED", loc),
     Categories |-> IF Has(props, "CATEGORIES")
                    THEN Split(Get(props, "CATEGORIES").value.s)
                    ELSE <<>>]

\* variant: a date that does not parse fails the whole decode
parseICalTaskStrict(c, loc) ==
    IF c.isNil THEN [state |-> "err"]
    ELSE LET i == FirstChild(c, "VTODO")
         IN  IF i = 0 THEN [state |-> "err"]
             ELSE LET props == c.children[i].props
                  IN  IF \E name \in {"DUE", "DTSTART", "COMPLETED"} :
                            Has(props, name) /\ PropDateTime(Get(props, name), loc).err
                      THEN [state |-> "err"]
                      ELSE [state |-> "ok", task |-> TaskFromProps(props, loc)]

parseICalTask(c, loc) ==
    IF c.isNil THEN [state |-> "err"]
    ELSE LET i == FirstChild(c, "VTODO")
         IN  IF i = 0 THEN [state |-> "err"]
             ELSE [state |-> "ok", task |-> TaskFromProps(c.children[i].props, loc)]

TaskStatusInProcess == <<"IN-PROCESS">>
TaskStatusCompleted == <<"COMPLETED">>
TaskStatusCancelled == <<"CANCELLED">>

\* strings.Join(list, ",")
RECURSIVE Join(_)
Join(list) ==
    IF list = <<>> THEN <<>>
    ELSE IF Len(list) = 1 THEN list[1]
    ELSE list[1] \o <<",">> \o Join(Tail(list))

\* variant: a COMPLETED task is written as 100 percent
TaskPercentPropsCoerced(props, t) ==
    IF t.Status = TaskStatusCompleted THEN PropsSet(props, IntProp("PERCENT-COMPLETE", 100))
    ELSE IF t.Percent > 0 THEN PropsSet(props, IntProp("PERCENT-COMPLETE", t.Percent))
    ELSE props

\* the percent branch of createICalTask
TaskPercentProps(props, t) ==
    IF t.Percent > 0 THEN PropsSet(props, IntProp("PERCENT-COMPLETE", t.Percent))
    ELSE props

\* the completed branch of createICalTask
TaskCompletedProps(props, t) ==
    IF ~IsZero(t.Completed) THEN PropsSet(props, DateTimeProp("COMPLETED", t.Completed))
    ELSE props

createICalTask(t, now) ==
    LET p1 == PropsSet(NoProps, TextProp("UID", t.UID))
        p2 == PropsSet(p1, TextProp("SUMMARY", t.Summary))
        p3 == IF t.Description /= <<>>
              THEN PropsSet(p2, TextProp("DESCRIPTION", t.Description))
              ELSE p2
        p4 == IF t.Status /= <<>>
              THEN PropsSet(p3, TextProp("STATUS", t.Status))
              ELSE p3
        p5 == IF t.Priority > 0
              THEN PropsSet(p4, IntProp("PRIORITY", t.Priority))
              ELSE p4
        p6 == TaskPercentProps(p5, t)
        p7 == IF ~IsZero(t.Due) THEN PropsSet(p6, DateTimeProp("DUE", t.Due)) ELSE p6
        p8 == IF ~IsZero(t.Start) THEN PropsSet(p7, DateTimeProp("DTSTART", t.Start)) ELSE p7
        p9 == TaskCompletedProps(p8, t)
        p10 == IF Len(t.Categories) > 0
               THEN PropsSet(p9, TextProp("CATEGORIES", Join(t.Categories)))
               ELSE p9
        p11 == PropsSet(p10, DateTimeProp("DTSTAMP", now))
        calProps == PropsSet(PropsSet(NoProps, TextProp("VERSION", <<"2.0">>)),
                             TextProp("PRODID", <<"-//sog//CalDAV Client//EN">>))
    IN  [isNil |-> FALSE, props |-> calProps,
         children |-> <<[name |-> "VTODO", props |-> p11]>>]

-----------------------------------------------------------------------------
(* CalDAV client: listing and fetching. objs is the answer of QueryCalendar,
   failed tells that the query itself returned an error. A listed record is
   written [item, ETag]: the decoded record with the ETag field set. *)

ListErr == [state |-> "err", items |-> <<>>]

\* the loop of ListEvents: an object that does not decode is skipped
RECURSIVE ListEventsFrom(_, _)
ListEventsFrom(objs, loc) ==
    IF objs = <<>> THEN <<>>
    ELSE LET r == parseICalEvent(Head(objs).Data, loc)
         IN  (IF r.state = "err" THEN <<>>
              ELSE <<[item |-> r.event, ETag |-> Head(objs).ETag]>>)
             \o ListEventsFrom(Tail(objs), loc)

\* variant: the first object that does not decode fails the listing
ListEventsFailFast(objs, failed, loc) ==
    IF failed THEN ListErr
    ELSE IF \E k \in 1..Len(objs) : parseICalEvent(objs[k].Data, loc).state = "err"
    THEN ListErr
    ELSE [state |-> "ok", items |-> ListEventsFrom(objs, loc)]

ListEvents(objs, failed, loc) ==
    IF failed THEN ListErr
    ELSE [state |-> "ok", items |-> ListEventsFrom(objs, loc)]

\* the loop of ListTasks: undecodable objects are skipped, and so are
\* COMPLETED tasks unless includeCompleted
RECURSIVE ListTasksFrom(_, _, _)
ListTasksFrom(objs, includeCompleted, loc) ==
    IF objs = <<>> THEN <<>>
    ELSE LET r == parseICalTask(Head(objs).Data, loc)
         IN  (IF r.state = "err" THEN <<>>
              ELSE IF ~includeCompleted /\ r.task.Status = TaskStatusCompleted THEN <<>>
              ELSE <<[item |-> r.task, ETag |-> Head(objs).ETag]>>)
             \o ListTasksFrom(Tail(objs), includeCompleted, loc)

ListTasks(objs, failed, includeCompleted, loc) ==
    IF failed THEN ListErr
    ELSE [state |-> "ok", items |-> ListTasksFrom(objs, includeCompleted, loc)]

GetEvent(objs, failed, loc) ==
    IF failed THEN ListErr
    ELSE IF Len(objs) = 0 THEN ListErr
    ELSE LET r == parseICalEvent(objs[1].Data, loc)
         IN  IF r.state = "err" THEN ListErr
             ELSE [state |-> "ok", items |-> <<[item |-> r.event, ETag |-> objs[1].ETag]>>]

-----------------------------------------------------------------------------
(* iTIP: encoder *)

MethodRequest == <<"REQUEST">>
StatusNeedsAction == <<"NEEDS-ACTION">>

NoParticipant == [Email |-> <<>>, Name |-> <<>>, Status |-> <<>>, RSVP |-> FALSE]

NoInvite ==
    [Method |-> <<>>, UID |-> <<>>, Summary |-> <<>>, Description |-> <<>>,
     Location |-> <<>>, Start |-> ZeroTime, End |-> ZeroTime,
     Organizer |-> NoParticipant, Attendees |-> <<>>, Sequence |-> 0,
     Created |-> ZeroTime]

\* the common-name parameter is set when the participant has a display name
WithName(params, p) == IF p.Name /= <<>> THEN ParamSet(params, "CN", p.Name) ELSE params

\* the ORGANIZER property built by CreateInvite
InviteOrganizerProp(p) ==
    [name |-> "ORGANIZER", value |-> StrVal(Mailto \o p.Email),
     params |-> WithName(NoParams, p)]

\* variant: the attendee's own status is written instead of NEEDS-ACTION
InviteAttendeePropKeepsStatus(att) ==
    LET q1 == WithName(NoParams, att)
        q2 == ParamSet(q1, "PARTSTAT", att.Status)
        q3 == IF att.RSVP THEN ParamSet(q2, "RSVP", <<"TRUE">>) ELSE q2
    IN  [name |-> "ATTENDEE", value |-> StrVal(Mailto \o att.Email),
         params |-> ParamSet(q3, "ROLE", <<"REQ-PARTICIPANT">>)]

\* one ATTENDEE property built by CreateInvite: the status is always NEEDS-ACTION
InviteAttendeeProp(att) ==
    LET q1 == WithName(NoParams, att)
        q2 == ParamSet(q1, "PARTSTAT", StatusNeedsAction)
        q3 == IF att.RSVP THEN ParamSet(q2, "RSVP", <<"TRUE">>) ELSE q2
    IN  [name |-> "ATTENDEE", value |-> StrVal(Mailto \o att.Email),
         params |-> ParamSet(q3, "ROLE", <<"REQ-PARTICIPANT">>)]

\* the attendee loop of CreateInvite: Props.Set replaces the properties of that name
RECURSIVE InviteAttendees(_, _)
InviteAttendees(props, attendees) ==
    IF attendees = <<>> THEN props
    ELSE InviteAttendees(PropsSet(props, InviteAttendeeProp(Head(attendees))),
                         Tail(attendees))

\* the calendar object CreateInvite hands to the encoder
InviteCalendar(i, now) ==
    LET p1 == PropsSet(NoProps, TextProp("UID", i.UID))
        p2 == PropsSet(p1, TextProp("SUMMARY", i.Summary))
        p3 == PropsSet(p2, DateTimeProp("DTSTART", i.Start))
        p4 == PropsSet(p3, DateTimeProp("DTEND", i.End))
        p5 == PropsSet(p4, DateTimeProp("DTSTAMP", now))
        p6 == PropsSet(p5, DateTimeProp("CREATED", i.Created))
        p7 == PropsSet(p6, IntProp("SEQUENCE", i.Sequence))
        p8 == IF i.Description /= <<>>
              THEN PropsSet(p7, TextProp("DESCRIPTION", i.Description))
              ELSE p7
        p9 == IF i.Location /= <<>>
              THEN PropsSet(p8, TextProp("LOCATION", i.Location))
              ELSE p8
        p10 == PropsSet(p9, InviteOrganizerProp(i.Organizer))
        p11 == InviteAttendees(p10, i.Attendees)
        calProps ==
            PropsSet(PropsSet(PropsSet(NoProps, TextProp("VERSION", <<"2.0">>)),
                              TextProp("PRODID", <<"-//sog//sogcli//EN">>)),
                     TextProp("METHOD", MethodRequest))
    IN  [isNil |-> FALSE, props |-> calProps,
         children |-> <<[name |-> "VEVENT", props |-> p11]>>]

\* ical.Encoder: a parameter value holding ; : or , is written in double quotes
QuoteParam(s) ==
    IF \E i \in 1..Len(s) : s[i] \in {";", ":", ","}
    THEN <<"\"">> \o s \o <<"\"">>
    ELSE s

\* ical.Decoder: a quoted parameter value is read without its quotes
UnquoteParam(s) ==
    IF Len(s) >= 2 /\ s[1] = "\"" THEN SubSeq(s, 2, Len(s) - 1) ELSE s

EncodeProp(prop) ==
    [prop EXCEPT !.params = [k \in 1..Len(@) |-> [@[k] EXCEPT !.v = QuoteParam(@)]]]

EncodeProps(props) == [k \in 1..Len(props) |-> EncodeProp(props[k])]

DecodeProp(prop) ==
    [prop EXCEPT !.params = [k \in 1..Len(@) |-> [@[k] EXCEPT !.v = UnquoteParam(@)]]]

DecodeProps(props) == [k \in 1..Len(props) |-> DecodeProp(props[k])]

\* ical.Encoder.Encode refuses a calendar without components or without exactly
\* one VERSION and PRODID, and an event without exactly one UID and DTSTAMP
EncodeErr(c) ==
    \/ c.children = <<>>
    \/ Len(Values(c.props, "VERSION")) /= 1
    \/ Len(Values(c.props, "PRODID")) /= 1
    \/ \E k \in 1..Len(c.children) :
          /\ c.children[k].name = "VEVENT"
          /\ \/ Len(Values(c.children[k].props, "UID")) /= 1
             \/ Len(Values(c.children[k].props, "DTSTAMP")) /= 1

NoBytes == [state |-> "err", props |-> NoProps, children |-> <<>>]

\* bytes.Buffer after Encode: [state, props, children]
Encode(c) ==
    IF EncodeErr(c) THEN NoBytes
    ELSE [state |-> "ok",
          props |-> EncodeProps(c.props),
          children |-> [k \in 1..Len(c.children) |->
                           [c.children[k] EXCEPT !.props = EncodeProps(@)]]]

\* ical.Decoder.Decode: [err, cal]
Decode(data) ==
    IF data.state /= "ok" THEN [err |-> TRUE, cal |-> NilCalendar]
    ELSE [err |-> FALSE,
          cal |-> [isNil |-> FALSE,
                   props |-> DecodeProps(data.props),
                   children |-> [k \in 1..Len(data.children) |->
                                    [data.children[k] EXCEPT !.props = DecodeProps(@)]]]]

CreateInvite(i, now) == Encode(InviteCalendar(i, now))

MethodReply == <<"REPLY">>
MethodCancel == <<"CANCEL">>

NoResponse ==
    [UID |-> <<>>, Attendee |-> NoParticipant, Organizer |-> NoParticipant,
     Status |-> <<>>, Comment |-> <<>>, Sequence |-> 0]

\* the document header CreateReply and CreateCancel write
ItipCalProps(method) ==
    PropsSet(PropsSet(PropsSet(NoProps, TextProp("VERSION", <<"2.0">>)),
                      TextProp("PRODID", <<"-//sog//sogcli//EN">>)),
             TextProp("METHOD", method))

\* variant: the responder's own Participant status is written
ReplyAttendeePropOwnStatus(r) ==
    [name |-> "ATTENDEE", value |-> StrVal(Mailto \o r.Attendee.Email),
     params |-> ParamSet(WithName(NoParams, r.Attendee), "PARTSTAT", r.Attendee.Status)]

\* the ATTENDEE property of CreateReply: the responder with the response's status
ReplyAttendeeProp(r) ==
    [name |-> "ATTENDEE", value |-> StrVal(Mailto \o r.Attendee.Email),
     params |-> ParamSet(WithName(NoParams, r.Attendee), "PARTSTAT", r.Status)]

\* the calendar object CreateReply hands to the encoder
ReplyCalendar(r, now) ==
    LET p1 == PropsSet(NoProps, TextProp("UID", r.UID))
        p2 == PropsSet(p1, DateTimeProp("DTSTAMP", now))
        p3 == PropsSet(p2, IntProp("SEQUENCE", r.Sequence))
        p4 == PropsSet(p3, InviteOrganizerProp(r.Organizer))
        p5 == PropsSet(p4, ReplyAttendeeProp(r))
        p6 == IF r.Comment /= <<>>
              THEN PropsSet(p5, TextProp("COMMENT", r.Comment))
              ELSE p5
    IN  [isNil |-> FALSE, props |-> ItipCalProps(MethodReply),
         children |-> <<[name |-> "VEVENT", props |-> p6]>>]

CreateReply(r, now) == Encode(ReplyCalendar(r, now))

\* one ATTENDEE property of CreateCancel: address and display name only
CancelAttendeeProp(att) ==
    [name |-> "ATTENDEE", value |-> StrVal(Mailto \o att.Email),
     params |-> WithName(NoParams, att)]

\* the attendee loop of CreateCancel: Props.Set replaces the properties of that name
RECURSIVE CancelAttendees(_, _)
CancelAttendees(props, attendees) ==
    IF attendees = <<>> THEN props
    ELSE CancelAttendees(PropsSet(props, CancelAttendeeProp(Head(attendees))),
                         Tail(attendees))

\* variant: the encoder moves the sequence number past the one supplied
CancelSequencePropNext(sequence) == IntProp("SEQUENCE", sequence + 1)

\* the SEQUENCE property of CreateCancel: the number as supplied
CancelSequenceProp(sequence) == IntProp("SEQUENCE", sequence)

\* the calendar object CreateCancel hands to the encoder
CancelCalendar(uid, organizer, attendees, sequence, now) ==
    LET p1 == PropsSet(NoProps, TextProp("UID", uid))
        p2 == PropsSet(p1, DateTimeProp("DTSTAMP", now))
        p3 == PropsSet(p2, CancelSequenceProp(sequence))
        p4 == PropsSet(p3, NewProp("STATUS", StrVal(<<"CANCELLED">>)))
        p5 == PropsSet(p4, InviteOrganizerProp(organizer))
        p6 == CancelAttendees(p5, attendees)
    IN  [isNil |-> FALSE, props |-> ItipCalProps(MethodCancel),
         children |-> <<[name |-> "VEVENT", props |-> p6]>>]

CreateCancel(uid, organizer, attendees, sequence, now) ==
    Encode(CancelCalendar(uid, organizer, attendees, sequence, now))

-----------------------------------------------------------------------------
(* iTIP: decoder *)

\* strings.ToUpper on an RSVP parameter value
ToUpperParam(v) ==
    IF v = <<"true">> THEN <<"TRUE">> ELSE IF v = <<"false">> THEN <<"FALSE">> ELSE v

\* the address branch of parseParticipant: the prefix is matched in lower case
ParticipantEmail(email) ==
    IF HasPrefix(ToLower(email), Mailto) THEN SubSeq(email, 8, Len(email)) ELSE email

parseParticipant(prop) ==
    [Email |-> ParticipantEmail(prop.value.s),
     Name |-> ParamGet(prop.params, "CN"),
     Status |-> ParamGet(prop.params, "PARTSTAT"),
     RSVP |-> ToUpperParam(ParamGet(prop.params, "RSVP")) = <<"TRUE">>]

\* one time branch of ParseInvite (time.UTC)
InviteTime(props, name) ==
    IF Has(props, name)
    THEN LET r == PropDateTime(Get(props, name), 0)
         IN  IF r.err THEN ZeroTime ELSE r.time
    ELSE ZeroTime

\* variant: a document without METHOD is read as a REQUEST
InviteMethodDefaultRequest(c) ==
    IF Has(c.props, "METHOD") THEN Get(c.props, "METHOD").value.s ELSE <<"REQUEST">>

InviteMethod(c) == IF Has(c.props, "METHOD") THEN Get(c.props, "METHOD").value.s ELSE <<>>

\* the fields ParseInvite takes from the first VEVENT
InviteFromEvent(method, props) ==
    [Method |-> method,
     UID |-> TextOf(props, "UID"),
     Summary |-> TextOf(props, "SUMMARY"),
     Description |-> TextOf(props, "DESCRIPTION"),
     Location |-> TextOf(props, "LOCATION"),
     Sequence |-> IF Has(props, "SEQUENCE") THEN Sscanf(Get(props, "SEQUENCE").value, 0) ELSE 0,
     Start |-> InviteTime(props, "DTSTART"),
     End |-> InviteTime(props, "DTEND"),
     Created |-> InviteTime(props, "CREATED"),
     Organizer |-> IF Has(props, "ORGANIZER")
                   THEN parseParticipant(Get(props, "ORGANIZER"))
                   ELSE NoParticipant,
     Attendees |-> LET as == Values(props, "ATTENDEE")
                   IN  [k \in 1..Len(as) |-> parseParticipant(as[k])]]

\* what ParseInvite returns when the document has no VEVENT
InviteWithoutEvent(method) ==
    [state |-> "ok", invite |-> [NoInvite EXCEPT !.Method = method]]

ParseInvite(data) ==
    LET d == Decode(data)
    IN  IF d.err THEN [state |-> "err"]
        ELSE LET i == FirstChild(d.cal, "VEVENT")
                 method == InviteMethod(d.cal)
             IN  IF i = 0 THEN InviteWithoutEvent(method)
                 ELSE [state |-> "ok",
                       invite |-> InviteFromEvent(method, d.cal.children[i].props)]

\* the bytes decoded and handed to the record mapper
ParseWireEvent(data, loc) ==
    LET d == Decode(data)
    IN  IF d.err THEN [state |-> "err"] ELSE parseICalEvent(d.cal, loc)

-----------------------------------------------------------------------------
(* Tasks: the client calls behind tasks add, update, done and undo. The task
   list on the server is a sequence of objects [Path, Data, ETag]. *)

\* generateTaskUID: "task-<UnixNano>@sog"
generateTaskUID(nanos) == <<"task-" \o ToString(nanos) \o "@sog">>

\* the Task that TasksAddCmd.Run builds
NewTask(uid, a) ==
    [UID |-> uid, Summary |-> a.Title, Description |-> a.Description,
     Status |-> TaskStatusNeedsAction, Priority |-> a.Priority, Percent |-> 0,
     Due |-> a.Due, Start |-> ZeroTime, Completed |-> ZeroTime, Categories |-> <<>>]

\* the updates TasksUpdateCmd.Run applies: only the flags that were given
ApplyUpdate(t, u) ==
    [t EXCEPT !.Summary = IF u.Title /= <<>> THEN u.Title ELSE @,
              !.Due = IF ~IsZero(u.Due) THEN u.Due ELSE @,
              !.Priority = IF u.Priority > 0 THEN u.Priority ELSE @,
              !.Description = IF u.Description /= <<>> THEN u.Description ELSE @]

\* PutCalendarObject: the object at the path is replaced, a new one is appended;
\* the server keeps what the encoder wrote
PutCalendarObject(objs, path, c, etag) ==
    LET obj == [Path |-> path, Data |-> Decode(Encode(c)).cal, ETag |-> etag]
    IN  IF \E k \in 1..Len(objs) : objs[k].Path = path
        THEN [k \in 1..Len(objs) |-> IF objs[k].Path = path THEN obj ELSE objs[k]]
        ELSE Append(objs, obj)

CreateTask(objs, t, now) ==
    PutCalendarObject(objs, t.UID \o <<".ics">>, createICalTask(t, now), <<ToString(now.t)>>)

UpdateTask(objs, t, now) ==
    PutCalendarObject(objs, t.UID \o <<".ics">>, createICalTask(t, now), <<ToString(now.t)>>)

\* findTaskByUID: the first listed task with the UID
findTaskByUID(objs, uid, loc) ==
    LET ts == ListTasksFrom(objs, TRUE, loc)
        idx == {k \in 1..Len(ts) : ts[k].item.UID = uid}
    IN  IF idx = {} THEN [state |-> "err"]
        ELSE [state |-> "ok", task |-> ts[CHOOSE k \in idx : \A j \in idx : k <= j].item]

\* the fields CompleteTask sets before UpdateTask
CompleteTask(t, now) ==
    [t EXCEPT !.Status = TaskStatusCompleted, !.Completed = now, !.Percent = 100]

\* variant: the completion instant is left in place
UncompleteTaskKeepsInstant(t) ==
    [t EXCEPT !.Status = TaskStatusNeedsAction, !.Percent = 0]

\* the fields UncompleteTask sets before UpdateTask
UncompleteTask(t) ==
    [t EXCEPT !.Status = TaskStatusNeedsAction, !.Completed = ZeroTime, !.Percent = 0]

-----------------------------------------------------------------------------
(* Scheduling mail: the invite commands and the message Send writes *)

\* getDomain: the part after the @
getDomain(email) ==
    IF Len(SelectSeq(email, LAMBDA c : c = "@")) = 1
    THEN LET at == CHOOSE k \in 1..Len(email) : email[k] = "@"
         IN  SubSeq(email, at + 1, Len(email))
    ELSE <<"sog.local">>

\* GenerateUID: fmt.Sprintf("%d-%d@%s", time.Now().UnixNano(), os.Getpid(), domain)
GenerateUID(domain, now) == <<ToString(now.t), "-", "pid", "@">> \o domain

\* the Invite InviteSendCmd.Run builds
SendInvite(email, summary, attendees, start, end, now) ==
    [Method |-> MethodRequest,
     UID |-> GenerateUID(getDomain(email), now),
     Summary |-> summary,
     Description |-> <<>>,
     Location |-> <<>>,
     Start |-> start,
     End |-> end,
     Organizer |-> [NoParticipant EXCEPT !.Email = email],
     Attendees |-> [k \in 1..Len(attendees) |->
                       [NoParticipant EXCEPT !.Email = attendees[k], !.RSVP = TRUE]],
     Sequence |-> 0,
     Created |-> [t |-> now.t, off |-> 0]]

\* the --status flag as a participation status
ReplyStatus(flag) ==
    CASE flag = "accept" -> <<"ACCEPTED">>
      [] flag = "decline" -> <<"DECLINED">>
      [] flag = "tentative" -> <<"TENTATIVE">>

\* the Response InviteReplyCmd.Run builds for a parsed invitation
ReplyResponse(email, i, flag, comment) ==
    [UID |-> i.UID,
     Attendee |-> [NoParticipant EXCEPT !.Email = email, !.Status = ReplyStatus(flag)],
     Organizer |-> i.Organizer,
     Status |-> ReplyStatus(flag),
     Comment |-> comment,
     Sequence |-> i.Sequence]

\* variant: the cancellation repeats the sequence number of the invitation
InviteCancelSameSequence(uid, email, attendees, now) ==
    CreateCancel(uid, [NoParticipant EXCEPT !.Email = email],
                 [k \in 1..Len(attendees) |-> [NoParticipant EXCEPT !.Email = attendees[k]]],
                 0, now)

\* the bytes InviteCancelCmd.Run builds: the sequence number is always 1
InviteCancel(uid, email, attendees, now) ==
    CreateCancel(uid, [NoParticipant EXCEPT !.Email = email],
                 [k \in 1..Len(attendees) |-> [NoParticipant EXCEPT !.Email = attendees[k]]],
                 1, now)

\* smtp.Message, the fields that reach the calendar part
Message(from, to, data, method) ==
    [From |-> from, To |-> to, CalendarData |-> data, CalendarMethod |-> method]

\* variant: the calendar part is always tagged REQUEST
CalendarPartRequest(msg) == [method |-> <<"REQUEST">>, data |-> msg.CalendarData]

\* Client.Send: the text/calendar part, its method parameter and its body
CalendarPart(msg) ==
    [method |-> IF msg.CalendarMethod = <<>> THEN <<"REQUEST">> ELSE msg.CalendarMethod,
     data |-> msg.CalendarData]

-----------------------------------------------------------------------------
(* Config: accounts and passwords. Accounts is a function from e-mail to
   Account; the credential store (keyring or credentials file) is a function
   from key to password; the environment is a function from the names that
   are set to a non-empty value. *)

NoAccounts == <<>>
NoPasswords == <<>>

\* a map with one key set
MapSet(f, k, v) == [x \in DOMAIN f \cup {k} |-> IF x = k THEN v ELSE f[x]]

\* delete(map, key)
MapDelete(f, k) == [x \in DOMAIN f \ {k} |-> f[x]]

ProtocolDefault == <<>>
ProtocolSMTP == <<"smtp">>

\* strings.ToUpper, on the characters the keys are made of and on the words
\* of a search query, each word one character of the model
ToUpperChar(c) ==
    CASE c = "a" -> "A" [] c = "b" -> "B" [] c = "x" -> "X"
      [] c = "smtp" -> "SMTP"
      [] c \in {"all", "All"} -> "ALL"
      [] c \in {"from", "From"} -> "FROM"
      [] c = "to" -> "TO"
      [] c = "subject" -> "SUBJECT"
      [] c = "text" -> "TEXT"
      [] c = "body" -> "BODY"
      [] c = "unseen" -> "UNSEEN"
      [] c = "unread" -> "UNREAD"
      [] c = "seen" -> "SEEN"
      [] c = "read" -> "READ"
      [] c = "flagged" -> "FLAGGED"
      [] c = "starred" -> "STARRED"
      [] c = "since" -> "SINCE"
      [] c = "before" -> "BEFORE"
      [] OTHER -> c

ToUpper(s) == [i \in 1..Len(s) |-> ToUpperChar(s[i])]

\* sanitizeEnvKey: @ . and - become _, then upper case
sanitizeEnvKey(email) ==
    ToUpper([i \in 1..Len(email) |->
                IF email[i] \in {"@", ".", "-"} THEN "_" ELSE email[i]])

\* fmt.Sprintf("%s:%s", email, protocol)
ProtocolKey(email, protocol) == email \o <<":">> \o protocol

\* SetPassword; ok tells whether the store accepted the write
SetPassword(st, key, password, ok) == IF ok THEN MapSet(st, key, password) ELSE st

SetPasswordForProtocol(st, email, protocol, password, ok) ==
    IF protocol = ProtocolDefault THEN SetPassword(st, email, password, ok)
    ELSE SetPassword(st, ProtocolKey(email, protocol), password, ok)

\* DeletePassword; a store that is down keeps what it holds
DeletePassword(st, key, ok) == IF ok THEN MapDelete(st, key) ELSE st

NotFound == [err |-> TRUE, password |-> <<>>]
Found(pw) == [err |-> FALSE, password |-> pw]

\* os.Getenv(name) != ""
EnvSet(e, name) == name \in DOMAIN e

\* GetPassword: the store, then SOG_PASSWORD_<key>; up tells whether the store
\* answers
GetPassword(st, e, key, up) ==
    IF up /\ key \in DOMAIN st THEN Found(st[key])
    ELSE LET envKey == <<"SOG_PASSWORD_">> \o sanitizeEnvKey(key)
         IN  IF EnvSet(e, envKey) THEN Found(e[envKey]) ELSE NotFound

GetPasswordForProtocol(st, e, email, protocol, up) ==
    IF protocol /= ProtocolDefault
    THEN LET r == GetPassword(st, e, ProtocolKey(email, protocol), up)
             envKey == <<"SOG_PASSWORD_">> \o sanitizeEnvKey(email) \o <<"_">>
                       \o ToUpper(protocol)
         IN  IF ~r.err THEN r
             ELSE IF EnvSet(e, envKey) THEN Found(e[envKey])
             ELSE GetPassword(st, e, email, up)
    ELSE GetPassword(st, e, email, up)

\* Config.AddAccount: [accounts, defaultAccount, stored, err]; the account is
\* in the map before the password is stored and the file saved
AddAccount(accts, def, st, acct, password, setOk, saveOk) ==
    [accounts |-> MapSet(accts, acct.Email, acct),
     defaultAccount |-> IF def = <<>> THEN acct.Email ELSE def,
     stored |-> SetPassword(st, acct.Email, password, setOk),
     err |-> ~setOk \/ ~saveOk]

\* Config.RemoveAccount: next is the first key the range over the remaining
\* accounts yields, if any
RemoveAccount(accts, def, st, email, next, delOk, saveOk) ==
    IF email \notin DOMAIN accts
    THEN [accounts |-> accts, defaultAccount |-> def, stored |-> st, err |-> TRUE]
    ELSE LET rest == MapDelete(accts, email)
         IN  [accounts |-> rest,
              defaultAccount |-> IF def = email
                                 THEN (IF DOMAIN rest = {} THEN <<>> ELSE next)
                                 ELSE def,
              stored |-> DeletePassword(st, email, delOk),
              err |-> ~saveOk]

-----------------------------------------------------------------------------
(* Mail search: a query is a string whose characters are whole words and
   blanks; a token is the string of the words between two blanks *)

Blank == " "

\* variant: the query is compared as typed
TrimSpaceNone(s) == s

RECURSIVE TrimLeft(_)
TrimLeft(s) == IF s /= <<>> /\ Head(s) = Blank THEN TrimLeft(Tail(s)) ELSE s

RECURSIVE TrimRight(_)
TrimRight(s) ==
    IF s /= <<>> /\ s[Len(s)] = Blank THEN TrimRight(SubSeq(s, 1, Len(s) - 1)) ELSE s

\* strings.TrimSpace
TrimSpace(s) == TrimRight(TrimLeft(s))

\* strings.Fields: the maximal runs without a blank
RECURSIVE FieldsFrom(_, _, _)
FieldsFrom(s, cur, acc) ==
    IF s = <<>> THEN (IF cur = <<>> THEN acc ELSE Append(acc, cur))
    ELSE IF Head(s) = Blank
    THEN FieldsFrom(Tail(s), <<>>, IF cur = <<>> THEN acc ELSE Append(acc, cur))
    ELSE FieldsFrom(Tail(s), Append(cur, Head(s)), acc)

Fields(s) == FieldsFrom(s, <<>>, <<>>)

\* the word that stands for a date in one of parseDate's formats
DateWord == "2024-01-15"

\* the instant that date is
DateValue == [t |-> DaySecs * TicksPerSec, off |-> 0]

\* parseDate: [err, time]
parseDate(token) ==
    IF token = <<DateWord>> THEN [err |-> FALSE, time |-> DateValue]
    ELSE [err |-> TRUE, time |-> ZeroTime]

\* &imap.SearchCriteria{}
NoCriteria ==
    [Header |-> <<>>, Text |-> <<>>, Flag |-> <<>>, NotFlag |-> <<>>,
     Since |-> ZeroTime, Before |-> ZeroTime]

HeaderField(key, value) == [Key |-> key, Value |-> value]

\* the loop of parseSearchQuery from token i on
RECURSIVE SearchLoop(_, _, _)
SearchLoop(tokens, i, c) ==
    IF i > Len(tokens) THEN c
    ELSE LET keyword == ToUpper(tokens[i])
             more == i + 1 <= Len(tokens)
         IN  CASE keyword = <<"FROM">> ->
                    IF more
                    THEN SearchLoop(tokens, i + 2,
                             [c EXCEPT !.Header = Append(@, HeaderField("From", tokens[i + 1]))])
                    ELSE SearchLoop(tokens, i + 1, c)
               [] keyword = <<"TO">> ->
                    IF more
                    THEN SearchLoop(tokens, i + 2,
                             [c EXCEPT !.Header = Append(@, HeaderField("To", tokens[i + 1]))])
                    ELSE SearchLoop(tokens, i + 1, c)
               [] keyword = <<"SUBJECT">> ->
                    IF more
                    THEN SearchLoop(tokens, i + 2,
                             [c EXCEPT !.Header = Append(@, HeaderField("Subject", tokens[i + 1]))])
                    ELSE SearchLoop(tokens, i + 1, c)
               [] keyword \in {<<"TEXT">>, <<"BODY">>} ->
                    IF more
                    THEN SearchLoop(tokens, i + 2, [c EXCEPT !.Text = Append(@, tokens[i + 1])])
                    ELSE SearchLoop(tokens, i + 1, c)
               [] keyword \in {<<"UNSEEN">>, <<"UNREAD">>} ->
                    SearchLoop(tokens, i + 1, [c EXCEPT !.NotFlag = Append(@, "Seen")])
               [] keyword \in {<<"SEEN">>, <<"READ">>} ->
                    SearchLoop(tokens, i + 1, [c EXCEPT !.Flag = Append(@, "Seen")])
               [] keyword \in {<<"FLAGGED">>, <<"STARRED">>} ->
                    SearchLoop(tokens, i + 1, [c EXCEPT !.Flag = Append(@, "Flagged")])
               [] keyword = <<"SINCE">> ->
                    IF more
                    THEN LET d == parseDate(tokens[i + 1])
                         IN  SearchLoop(tokens, i + 2,
                                        IF d.err THEN c ELSE [c EXCEPT !.Since = d.time])
                    ELSE SearchLoop(tokens, i + 1, c)
               [] keyword = <<"BEFORE">> ->
                    IF more
                    THEN LET d == parseDate(tokens[i + 1])
                         IN  SearchLoop(tokens, i + 2,
                                        IF d.err THEN c ELSE [c EXCEPT !.Before = d.time])
                    ELSE SearchLoop(tokens, i + 1, c)
               [] OTHER ->
                    SearchLoop(tokens, i + 1, [c EXCEPT !.Text = Append(@, tokens[i])])

\* parseSearchQuery: [err, isNil, criteria]
parseSearchQuery(query) ==
    IF ToUpper(TrimSpace(query)) = <<"ALL">>
    THEN [err |-> FALSE, isNil |-> TRUE, criteria |-> NoCriteria]
    ELSE [err |-> FALSE, isNil |-> FALSE,
          criteria |-> SearchLoop(Fields(query), 1, NoCriteria)]

-----------------------------------------------------------------------------
(* Inputs *)

AddrA == <<"a", "@", "x">>
AddrB == <<"b", "@", "x">>
AddrQ == <<"a", ",", "b", "@", "x">>

Texts == {<<"a">>, <<"a", ",", "b">>, <<"l", "\n", "\\", ";">>}

\* time.Now() readings
Nows == {[t |-> (MaxSec + 1) * TicksPerSec + 1, off |-> 0]}

Int2Time(k, o) == [t |-> k, off |-> o]

\* start/end pairs of timed records: whole seconds in UTC, as parseDateTime
\* (time.Parse) of the command line builds them
TimedPairs ==
    {<<Int2Time(k * TicksPerSec, 0), TimeAdd(Int2Time(k * TicksPerSec, 0), d)>> :
        k \in 0..MaxSec, d \in {1, DaySecs}}

\* start/end pairs of all-day records: midnights one day apart, UTC or local
AllDayPairs(loc) ==
    {<<Int2Time(q[1], q[2]), TimeAdd(Int2Time(q[1], q[2]), DaySecs)>> :
        q \in {r \in (0..(MaxSec * TicksPerSec)) \X {0, loc} : IsMidnight(Int2Time(r[1], r[2]))}}

SeqsUpTo(S, n) == UNION {[1..k -> S] : k \in 0..n}

\* Events handed to createICalEvent; an all-day Event has no time-of-day
EventInputs(loc) ==
    {[UID |-> IF full THEN <<"u", "2">> ELSE <<"u", "1">>,
      Summary |-> t,
      Description |-> IF full THEN t ELSE <<>>,
      Location |-> IF full THEN <<"r", "m">> ELSE <<>>,
      Status |-> IF full THEN <<"CONFIRMED">> ELSE <<>>,
      URL |-> IF full THEN <<"h", ":", "/">> ELSE <<>>,
      Start |-> pa[1][1], End |-> pa[1][2], AllDay |-> pa[2],
      Organizer |-> o, Attendees |-> a] :
        t \in Texts, full \in BOOLEAN,
        pa \in {x \in (TimedPairs \cup AllDayPairs(loc)) \X BOOLEAN :
                    x[2] => x[1] \in AllDayPairs(loc)},
        o \in {<<>>, AddrA, AddrQ}, a \in SeqsUpTo({AddrA, AddrB}, MaxAttendees)}

\* completion instants: unset, a whole second in UTC, and a reading of
\* time.Now() in the local zone with a sub-second part
CompletedChoices(loc) ==
    {ZeroTime, Int2Time(2 * TicksPerSec, 0), Int2Time(2 * TicksPerSec + 1, loc)}

TaskStatuses ==
    {TaskStatusNeedsAction, TaskStatusInProcess, TaskStatusCompleted, TaskStatusCancelled}

PercentChoices == {0, 50, 100}

\* Tasks handed to createICalTask, consistent or not
TaskInputs(loc) ==
    {[UID |-> <<"t", "1">>,
      Summary |-> <<"s">>,
      Description |-> IF full THEN <<"d">> ELSE <<>>,
      Status |-> st,
      Priority |-> IF full THEN 5 ELSE 0,
      Percent |-> pc,
      Due |-> IF full THEN Int2Time(3 * TicksPerSec, 0) ELSE ZeroTime,
      Start |-> ZeroTime,
      Completed |-> co,
      Categories |-> IF full THEN <<<<"a">>, <<"b">>>> ELSE <<>>] :
        st \in TaskStatuses, pc \in PercentChoices, co \in CompletedChoices(loc),
        full \in BOOLEAN}

\* property values a server document may carry
UpperMailto == <<"M", "A", "I", "L", "T", "O", ":">>
MixedMailto == <<"M", "a", "i", "l", "t", "o", ":">>

RawProp(name, s) == NewProp(name, StrVal(s))
ValProp(name, v, valueParam) ==
    [name |-> name, value |-> v,
     params |-> IF valueParam = <<>> THEN NoParams ELSE ParamSet(NoParams, "VALUE", valueParam)]

\* absent is the empty list of properties
StartChoices ==
    {<<>>, <<ValProp("DTSTART", NumVal("utc", 0), <<>>)>>,
     <<ValProp("DTSTART", NumVal("utc", 3), <<>>)>>,
     <<ValProp("DTSTART", NumVal("float", DaySecs), <<>>)>>,
     <<ValProp("DTSTART", NumVal("date", 1), <<"DATE">>)>>,
     <<ValProp("DTSTART", BadVal, <<>>)>>,
     <<ValProp("DTSTART", BadVal, <<"DATE">>)>>,
     <<ValProp("DTSTART", NumVal("utc", 3), <<"DATE">>)>>}

EndChoices ==
    {<<>>, <<ValProp("DTEND", NumVal("utc", MaxSec), <<>>)>>, <<ValProp("DTEND", BadVal, <<>>)>>}

DurationChoices ==
    {<<>>, <<NewProp("DURATION", NumVal("dur", 2))>>, <<NewProp("DURATION", BadVal)>>}

Org(s) == RawProp("ORGANIZER", s)
Att(s) == RawProp("ATTENDEE", s)

\* organizer and attendee properties of a server event, chosen together
PeopleChoices ==
    {<<>>,
     <<Org(Mailto \o AddrA), Att(Mailto \o AddrB)>>,
     <<Org(UpperMailto \o AddrA), Att(Mailto \o AddrA), Att(UpperMailto \o AddrB)>>,
     <<Org(MixedMailto \o AddrB), Att(MixedMailto \o AddrA)>>,
     <<Org(AddrA), Att(AddrB), Att(AddrA)>>}

ServerEvent(uid, start, end, dur, people) ==
    [name |-> "VEVENT",
     props |-> <<RawProp("UID", uid), RawProp("SUMMARY", <<"s">> \o uid)>>
               \o start \o end \o dur \o people]

ServerEvents ==
    {ServerEvent(<<"e", "1">>, st, en, du, pe) :
        st \in StartChoices, en \in EndChoices, du \in DurationChoices, pe \in PeopleChoices}

TaskTimeChoices(name) ==
    {<<>>, <<ValProp(name, NumVal("utc", 3), <<>>)>>, <<ValProp(name, BadVal, <<>>)>>,
     <<ValProp(name, NumVal("date", 1), <<"DATE">>)>>}

\* priority and percent of a server task, chosen together
TaskIntChoices ==
    {<<>>,
     <<IntProp("PRIORITY", 5), IntProp("PERCENT-COMPLETE", 50)>>,
     <<RawProp("PRIORITY", <<"x">>), IntProp("PERCENT-COMPLETE", 100)>>}

\* status and categories of a server task, chosen together
TaskTextChoices ==
    {<<>>, <<RawProp("STATUS", <<"COMPLETED">>), RawProp("CATEGORIES", <<"a", ",", "b">>)>>}

ServerTask(uid, due, start, completed, ints, texts) ==
    [name |-> "VTODO",
     props |-> <<RawProp("UID", uid), RawProp("SUMMARY", <<"s">> \o uid),
                 RawProp("DESCRIPTION", <<"d">> \o uid)>>
               \o due \o start \o completed \o ints \o texts]

ServerTasks ==
    {ServerTask(<<"t", "1">>, du, st, co, i, x) :
        du \in TaskTimeChoices("DUE"), st \in TaskTimeChoices("DTSTART"),
        co \in TaskTimeChoices("COMPLETED"), i \in TaskIntChoices, x \in TaskTextChoices}

\* components of documents that hold more than one component
CoreComponents ==
    {ServerEvent(<<"e", "1">>, <<ValProp("DTSTART", NumVal("utc", 3), <<>>)>>, <<>>, <<>>,
                 <<Org(Mailto \o AddrA), Att(Mailto \o AddrB)>>),
     ServerEvent(<<"e", "2">>, <<ValProp("DTSTART", NumVal("date", 1), <<"DATE">>)>>, <<>>, <<>>,
                 <<>>),
     ServerTask(<<"t", "1">>, <<ValProp("DUE", NumVal("utc", 3), <<>>)>>, <<>>, <<>>, <<>>, <<>>),
     ServerEvent(<<"e", "3">>, <<ValProp("DTSTART", BadVal, <<"DATE">>)>>,
                 <<ValProp("DTEND", NumVal("utc", MaxSec), <<>>)>>, <<>>, <<>>),
     ServerTask(<<"t", "2">>, <<>>, <<>>, <<>>,
                <<IntProp("PRIORITY", 5), IntProp("PERCENT-COMPLETE", 50)>>, <<>>),
     ServerTask(<<"t", "3">>, <<ValProp("DUE", BadVal, <<>>)>>, <<>>, <<>>,
                <<IntProp("PRIORITY", 5), IntProp("PERCENT-COMPLETE", 50)>>,
                <<RawProp("STATUS", <<"COMPLETED">>), RawProp("CATEGORIES", <<"a", ",", "b">>)>>)}

ChildLists ==
    {<<>>} \cup {<<c>> : c \in ServerEvents \cup ServerTasks}
    \cup UNION {[1..k -> CoreComponents] : k \in 2..MaxChildren}

CalProps(method) ==
    <<RawProp("VERSION", <<"2.0">>), RawProp("PRODID", <<"-//srv//EN">>)>> \o method

\* calendar objects a server returns (obj.Data), nil included
ServerCalendars ==
    {NilCalendar} \cup
    {[isNil |-> FALSE, props |-> CalProps(<<>>), children |-> ch] : ch \in ChildLists}

\* arguments of tasks add: title, --due, --priority, --description
TasksAddInputs ==
    {[Title |-> <<"s">>, Due |-> ZeroTime, Priority |-> 0, Description |-> <<>>],
     [Title |-> <<"n">>, Due |-> Int2Time(MaxSec * TicksPerSec, 0), Priority |-> 5,
      Description |-> <<"d">>]}

\* arguments of tasks update: an absent flag is the empty string or 0
TasksUpdateInputs ==
    {[Title |-> <<>>, Due |-> ZeroTime, Priority |-> 0, Description |-> <<>>],
     [Title |-> <<"r">>, Due |-> ZeroTime, Priority |-> 0, Description |-> <<>>],
     [Title |-> <<>>, Due |-> Int2Time(DaySecs * TicksPerSec, 0), Priority |-> 1,
      Description |-> <<"e">>]}

UnknownUID == <<"task-0@sog">>

\* e-mail arguments of auth add / auth remove: the argument may be empty
AccountEmails == {<<>>, AddrA, AddrB}

Account(email) == [Email |-> email, SMTPHost |-> <<"h">>]

PasswordInputs == {<<"p">>, <<"q">>}

\* the environment of the process: each variable, when set, has its own value
EnvNames ==
    {<<"SOG_PASSWORD_">> \o sanitizeEnvKey(AddrA),
     <<"SOG_PASSWORD_">> \o sanitizeEnvKey(AddrA) \o <<"_">> \o ToUpper(ProtocolSMTP),
     <<"SOG_PASSWORD_">> \o sanitizeEnvKey(ProtocolKey(AddrA, ProtocolSMTP))}

EnvNameSets ==
    {{}, EnvNames,
     {<<"SOG_PASSWORD_">> \o sanitizeEnvKey(AddrA)},
     {<<"SOG_PASSWORD_">> \o sanitizeEnvKey(AddrA) \o <<"_">> \o ToUpper(ProtocolSMTP)}}

Environments == {[n \in N |-> <<"env">> \o n] : N \in EnvNameSets}

\* invitations from other senders, saved to a file: with and without a
\* sequence number
ForeignInvitations ==
    {[state |-> "ok", props |-> CalProps(<<RawProp("METHOD", <<"REQUEST">>)>>),
      children |-> <<ServerEvent(<<"e", "5">>, <<>>, <<>>, <<>>,
                                 sq \o <<Org(Mailto \o AddrA)>>)>>] :
        sq \in {<<>>, <<IntProp("SEQUENCE", MaxSeq)>>}}

\* the words and the blank a search query is typed with
QueryChars ==
    {Blank, "ALL", "all", "All", "FROM", "from", "to", "subject", "text", "body",
     "unseen", "unread", "seen", "read", "flagged", "starred", "since", "before",
     DateWord, "x"}

Queries == UNION {[1..k -> QueryChars] : k \in 0..MaxQueryLen}

\* a task another CalDAV client stored: under <uid>.ics or under a name of its
\* own, with no category, one or two
AuthoredObjects(uid) ==
    {[Path |-> path,
      Data |-> [isNil |-> FALSE, props |-> CalProps(<<>>),
                children |-> <<ServerTask(uid, <<ValProp("DUE", NumVal("utc", 3), <<>>)>>,
                                          <<>>, <<>>, <<IntProp("PRIORITY", 5)>>, cats)>>],
      ETag |-> <<"e">>] :
        path \in {uid \o <<".ics">>, <<"r">> \o uid \o <<".ics">>},
        cats \in {<<>>, <<RawProp("CATEGORIES", <<"w">>)>>,
                  <<RawProp("CATEGORIES", <<"w", ",", "h">>)>>}}

\* the task lists found on the server: one or two tasks with different UIDs
AuthoredLists ==
    {<<o>> : o \in AuthoredObjects(<<"t", "1">>)}
    \cup {<<o, p>> : o \in AuthoredObjects(<<"t", "1">>),
                     p \in {q \in AuthoredObjects(<<"t", "2">>) :
                               q.Path = <<"t", "2", ".ics">> /\ Len(q.Data.children[1].props) = 5}}
    \cup {<<p, o>> : o \in {q \in AuthoredObjects(<<"t", "1">>) : q.Path /= <<"t", "1", ".ics">>},
                     p \in {q \in AuthoredObjects(<<"t", "2">>) :
                               q.Path = <<"t", "2", ".ics">> /\ Len(q.Data.children[1].props) = 5}}

\* answers of QueryCalendar: objects with one component, none, or no data
ETags == {<<"1">>, <<"2">>}

ObjectData ==
    {NilCalendar} \cup
    {[isNil |-> FALSE, props |-> CalProps(<<>>), children |-> ch] :
        ch \in {<<>>} \cup {<<c>> : c \in CoreComponents}}

ObjectLists == SeqsUpTo([Data : ObjectData, ETag : ETags], MaxObjects)

\* Participants of an Invite handed to CreateInvite
AttendeeInputs ==
    {[Email |-> AddrA, Name |-> <<>>, Status |-> <<>>, RSVP |-> TRUE],
     [Email |-> AddrB, Name |-> <<"B", ",", "o">>, Status |-> <<"ACCEPTED">>, RSVP |-> FALSE],
     [Email |-> <<"c", "@", "x">>, Name |-> <<"C">>, Status |-> <<"DECLINED">>, RSVP |-> TRUE],
     [Email |-> AddrQ, Name |-> <<>>, Status |-> <<"TENTATIVE">>, RSVP |-> FALSE]}

OrganizerInputs ==
    {[Email |-> AddrA, Name |-> <<>>, Status |-> <<>>, RSVP |-> FALSE],
     [Email |-> AddrB, Name |-> <<"B", ":", "o">>, Status |-> <<>>, RSVP |-> FALSE]}

InviteInputs ==
    {[Method |-> IF full THEN MethodRequest ELSE <<>>,
      UID |-> <<"m", "1">>,
      Summary |-> t,
      Description |-> IF full THEN t ELSE <<>>,
      Location |-> IF full THEN <<"r", "m">> ELSE <<>>,
      Start |-> Int2Time(IF full THEN MaxSec * TicksPerSec ELSE 0, 0),
      End |-> Int2Time((MaxSec + 1) * TicksPerSec, 0),
      Organizer |-> o, Attendees |-> a, Sequence |-> q,
      Created |-> Int2Time(IF full THEN TicksPerSec ELSE 0, 0)] :
        t \in Texts, full \in BOOLEAN, o \in OrganizerInputs,
        a \in SeqsUpTo(AttendeeInputs, MaxAttendees), q \in 0..MaxSeq}

\* identifiers: one plain, one holding a comma
UidInputs == {<<"m", "1">>, <<"m", ",", "1">>}

ResponderInputs ==
    {[Email |-> AddrA, Name |-> <<>>, Status |-> <<"ACCEPTED">>, RSVP |-> FALSE],
     [Email |-> AddrB, Name |-> <<"B", ",", "o">>, Status |-> <<>>, RSVP |-> FALSE]}

\* Responses handed to CreateReply
ResponseInputs ==
    {[UID |-> u, Attendee |-> a, Organizer |-> o, Status |-> st,
      Comment |-> c, Sequence |-> q] :
        u \in UidInputs, a \in ResponderInputs, o \in OrganizerInputs,
        st \in {<<>>, <<"ACCEPTED">>, <<"DECLINED">>, <<"TENTATIVE">>},
        c \in {<<>>, <<"o", "k">>}, q \in 0..MaxSeq}

\* arguments handed to CreateCancel
CancelInputs ==
    {[uid |-> u, organizer |-> o, attendees |-> a, sequence |-> q] :
        u \in UidInputs, o \in OrganizerInputs,
        a \in SeqsUpTo(AttendeeInputs, MaxAttendees), q \in 0..MaxSeq}

\* the SEQUENCE property of a received event: absent, an integer, text
\* without digits, an integer followed by other text
SequenceChoices ==
    {<<>>, <<IntProp("SEQUENCE", MaxSeq)>>, <<RawProp("SEQUENCE", <<"x">>)>>,
     <<NewProp("SEQUENCE", IntThenText(MaxSeq, <<"x">>))>>}

MailChildLists ==
    {<<>>} \cup {<<c>> : c \in ServerEvents}
    \cup {<<ServerEvent(<<"e", "4">>, <<>>, <<>>, <<>>, sq)>> : sq \in SequenceChoices}
    \cup UNION {[1..k -> CoreComponents] : k \in 1..MaxChildren}

\* bytes read from a mail attachment or a file; NoBytes is text the decoder rejects
MailBytes ==
    {NoBytes} \cup
    {[state |-> "ok", props |-> CalProps(m), children |-> ch] :
        m \in {<<>>, <<RawProp("METHOD", <<"REQUEST">>)>>, <<RawProp("METHOD", <<"CANCEL">>)>>},
        ch \in MailChildLists}

-----------------------------------------------------------------------------
(* Operations *)

\* no call yet; a failed call returns the error and a nil record
NoEventOut == [state |-> "none"]
NoTaskOut == [state |-> "none"]
NoInviteOut == [state |-> "none"]
NoListOut == [op |-> "none"]
NoCmd == [op |-> "none", uid |-> <<>>, state |-> "ok"]
NoCfgOut == [op |-> "none"]
NoCall == [pc |-> "idle", fn |-> "none", arg |-> <<>>, in |-> <<>>, now |-> ZeroTime,
           mid |-> <<>>, result |-> <<>>]
NoSearch == [query |-> <<>>, out |-> [state |-> "none"]]
Goroutines == {1, 2}

\* no record has been handed to an encoder
Nothing == <<>>

\* the state after start-up, the environment left open
InitButEnv ==
    /\ localOff \in {0, 1}
    /\ cal = NilCalendar
    /\ calSrc = "none"
    /\ ev = Nothing
    /\ task = Nothing
    /\ evOut = NoEventOut
    /\ taskOut = NoTaskOut
    /\ inv = Nothing
    /\ wire = NoBytes
    /\ wireSrc = "none"
    /\ invOut = NoInviteOut
    /\ resp = Nothing
    /\ cancel = Nothing
    /\ wireEvOut = NoEventOut
    /\ objects = <<>>
    /\ listOut = NoListOut
    /\ clock = TicksPerSec
    /\ lastCmd = NoCmd
    /\ accounts = NoAccounts
    /\ defaultAccount = <<>>
    /\ stored = NoPasswords
    /\ cfgOut = NoCfgOut
    /\ calls = [w \in Goroutines |-> NoCall]
    /\ outbox = <<>>
    /\ search = NoSearch

NoEnv == <<>>

Init == InitButEnv /\ env = NoEnv

\* no command is running: the records of the last one are gone
Idle == calSrc = "none" /\ wireSrc = "none"

\* the record mapper holds nothing
MapperIdle ==
    /\ cal' = NilCalendar
    /\ calSrc' = "none"
    /\ ev' = Nothing
    /\ task' = Nothing
    /\ evOut' = NoEventOut
    /\ taskOut' = NoTaskOut

\* the iTIP decoders have returned nothing
ItipIdle ==
    /\ invOut' = NoInviteOut
    /\ wireEvOut' = NoEventOut

\* no record has been handed to an iTIP encoder
NoItipInput ==
    /\ inv' = Nothing
    /\ resp' = Nothing
    /\ cancel' = Nothing

\* CreateEvent / UpdateEvent: an Event is mapped to a calendar object
DoCreateICalEvent ==
    /\ Idle
    /\ \E e \in EventInputs(localOff), now \in Nows :
        /\ cal' = createICalEvent(e, now)
        /\ calSrc' = "create"
        /\ ev' = e
        /\ task' = Nothing
        /\ evOut' = NoEventOut
        /\ taskOut' = NoTaskOut
        /\ ItipIdle
        /\ NoItipInput
        /\ wire' = NoBytes
        /\ wireSrc' = "none"
        /\ UNCHANGED localOff
    /\ UNCHANGED <<serverVars, cliVars, appVars>>

\* CreateTask / UpdateTask: a Task is mapped to a calendar object
DoCreateICalTask ==
    /\ Idle
    /\ \E t \in TaskInputs(localOff), now \in Nows :
        /\ cal' = createICalTask(t, now)
        /\ calSrc' = "createTask"
        /\ ev' = Nothing
        /\ task' = t
        /\ evOut' = NoEventOut
        /\ taskOut' = NoTaskOut
        /\ ItipIdle
        /\ NoItipInput
        /\ wire' = NoBytes
        /\ wireSrc' = "none"
        /\ UNCHANGED localOff
    /\ UNCHANGED <<serverVars, cliVars, appVars>>

\* QueryCalendar: the server hands back a calendar object
ReceiveCalendar ==
    /\ Idle
    /\ \E d \in ServerCalendars :
        /\ cal' = d
        /\ calSrc' = "server"
        /\ ev' = Nothing
        /\ task' = Nothing
        /\ evOut' = NoEventOut
        /\ taskOut' = NoTaskOut
        /\ ItipIdle
        /\ NoItipInput
        /\ wire' = NoBytes
        /\ wireSrc' = "none"
        /\ UNCHANGED localOff
    /\ UNCHANGED <<serverVars, cliVars, appVars>>

DoParseICalEvent ==
    /\ calSrc /= "none"
    /\ evOut.state = "none"
    /\ evOut' = parseICalEvent(cal, localOff)
    /\ UNCHANGED <<localOff, cal, calSrc, ev, task, taskOut, inv, wire, wireSrc, invOut,
                   resp, cancel, wireEvOut>>
    /\ UNCHANGED <<serverVars, cliVars, appVars>>

DoParseICalTask ==
    /\ calSrc \in {"server", "createTask"}
    /\ taskOut.state = "none"
    /\ taskOut' = parseICalTask(cal, localOff)
    /\ UNCHANGED <<localOff, cal, calSrc, ev, task, evOut, inv, wire, wireSrc, invOut,
                   resp, cancel, wireEvOut>>
    /\ UNCHANGED <<serverVars, cliVars, appVars>>

DoCreateInvite ==
    /\ Idle
    /\ \E i \in InviteInputs, now \in Nows :
        /\ MapperIdle
        /\ ItipIdle
        /\ inv' = i
        /\ resp' = Nothing
        /\ cancel' = Nothing
        /\ wire' = CreateInvite(i, now)
        /\ wireSrc' = "invite"
        /\ UNCHANGED localOff
    /\ UNCHANGED <<serverVars, cliVars, appVars>>

DoCreateReply ==
    /\ Idle
    /\ \E r \in ResponseInputs, now \in Nows :
        /\ MapperIdle
        /\ ItipIdle
        /\ inv' = Nothing
        /\ resp' = r
        /\ cancel' = Nothing
        /\ wire' = CreateReply(r, now)
        /\ wireSrc' = "reply"
        /\ UNCHANGED localOff
    /\ UNCHANGED <<serverVars, cliVars, appVars>>

DoCreateCancel ==
    /\ Idle
    /\ \E c \in CancelInputs, now \in Nows :
        /\ MapperIdle
        /\ ItipIdle
        /\ inv' = Nothing
        /\ resp' = Nothing
        /\ cancel' = c
        /\ wire' = CreateCancel(c.uid, c.organizer, c.attendees, c.sequence, now)
        /\ wireSrc' = "cancel"
        /\ UNCHANGED localOff
    /\ UNCHANGED <<serverVars, cliVars, appVars>>

\* an .ics attachment or file is read
ReceiveMail ==
    /\ Idle
    /\ \E b \in MailBytes :
        /\ MapperIdle
        /\ ItipIdle
        /\ NoItipInput
        /\ wire' = b
        /\ wireSrc' = "mail"
        /\ UNCHANGED localOff
    /\ UNCHANGED <<serverVars, cliVars, appVars>>

DoParseInvite ==
    /\ wireSrc /= "none"
    /\ invOut.state = "none"
    /\ invOut' = ParseInvite(wire)
    /\ UNCHANGED <<localOff, cal, calSrc, ev, task, evOut, taskOut, inv, wire, wireSrc,
                   resp, cancel, wireEvOut>>
    /\ UNCHANGED <<serverVars, cliVars, appVars>>

\* the document is decoded and read through the record mapper instead
DoParseWireEvent ==
    /\ wireSrc /= "none"
    /\ wireEvOut.state = "none"
    /\ wireEvOut' = ParseWireEvent(wire, localOff)
    /\ UNCHANGED <<localOff, cal, calSrc, ev, task, evOut, taskOut, inv, wire, wireSrc,
                   resp, cancel, invOut>>
    /\ UNCHANGED <<serverVars, cliVars, appVars>>

\* the command returns; Event, Task and Invite records are transient
Return ==
    /\ ~Idle
    /\ MapperIdle
    /\ ItipIdle
    /\ NoItipInput
    /\ wire' = NoBytes
    /\ wireSrc' = "none"
    /\ UNCHANGED localOff
    /\ UNCHANGED <<serverVars, cliVars, appVars>>

\* calendar list / search: ListEvents over the server's answer
DoListEvents ==
    /\ listOut.op = "none"
    /\ \E objs \in ObjectLists, failed \in BOOLEAN :
        /\ objects' = objs
        /\ listOut' = [op |-> "ListEvents", failed |-> failed, includeCompleted |-> TRUE,
                       res |-> ListEvents(objs, failed, localOff)]
    /\ UNCHANGED <<mapperVars, cliVars, appVars>>

\* tasks list: ListTasks over the server's answer
DoListTasks ==
    /\ listOut.op = "none"
    /\ \E objs \in ObjectLists, failed \in BOOLEAN, includeCompleted \in BOOLEAN :
        /\ objects' = objs
        /\ listOut' = [op |-> "ListTasks", failed |-> failed,
                       includeCompleted |-> includeCompleted,
                       res |-> ListTasks(objs, failed, includeCompleted, localOff)]
    /\ UNCHANGED <<mapperVars, cliVars, appVars>>

\* calendar get: GetEvent over the server's answer to the UID query
DoGetEvent ==
    /\ listOut.op = "none"
    /\ \E objs \in ObjectLists, failed \in BOOLEAN :
        /\ objects' = objs
        /\ listOut' = [op |-> "GetEvent", failed |-> failed, includeCompleted |-> TRUE,
                       res |-> GetEvent(objs, failed, localOff)]
    /\ UNCHANGED <<mapperVars, cliVars, appVars>>

\* the command has printed its result
ListReturn ==
    /\ listOut.op /= "none"
    /\ objects' = <<>>
    /\ listOut' = NoListOut
    /\ UNCHANGED <<mapperVars, cliVars, appVars>>

\* the UIDs a tasks command may name: those of the list and one that is not
KnownUIDs == {parseICalTask(objects[k].Data, localOff).task.UID : k \in 1..Len(objects)}

Now == [t |-> clock, off |-> localOff]

\* tasks add
DoTasksAdd ==
    /\ clock < TicksPerSec + MaxCommands
    /\ Len(objects) < MaxTasks
    /\ \E a \in TasksAddInputs, putOk \in BOOLEAN :
        LET t == NewTask(generateTaskUID(clock), a)
        IN  /\ objects' = IF putOk THEN CreateTask(objects, t, Now) ELSE objects
            /\ lastCmd' = [op |-> "add", uid |-> t.UID,
                           state |-> IF putOk THEN "ok" ELSE "err"]
    /\ clock' = clock + 1
    /\ UNCHANGED <<mapperVars, listOut, appVars>>

\* tasks update
DoTasksUpdate ==
    /\ clock < TicksPerSec + MaxCommands
    /\ \E uid \in KnownUIDs \cup {UnknownUID}, u \in TasksUpdateInputs, putOk \in BOOLEAN :
        LET f == findTaskByUID(objects, uid, localOff)
            done == f.state = "ok" /\ putOk
        IN  /\ objects' = IF done THEN UpdateTask(objects, ApplyUpdate(f.task, u), Now)
                           ELSE objects
            /\ lastCmd' = [op |-> "update", uid |-> uid,
                           state |-> IF done THEN "ok" ELSE "err"]
    /\ clock' = clock + 1
    /\ UNCHANGED <<mapperVars, listOut, appVars>>

\* tasks done
DoTasksDone ==
    /\ clock < TicksPerSec + MaxCommands
    /\ \E uid \in KnownUIDs \cup {UnknownUID}, putOk \in BOOLEAN :
        LET f == findTaskByUID(objects, uid, localOff)
            done == f.state = "ok" /\ putOk
        IN  /\ objects' = IF done THEN UpdateTask(objects, CompleteTask(f.task, Now), Now)
                           ELSE objects
            /\ lastCmd' = [op |-> "done", uid |-> uid,
                           state |-> IF done THEN "ok" ELSE "err"]
    /\ clock' = clock + 1
    /\ UNCHANGED <<mapperVars, listOut, appVars>>

\* tasks undo
DoTasksUndo ==
    /\ clock < TicksPerSec + MaxCommands
    /\ \E uid \in KnownUIDs \cup {UnknownUID}, putOk \in BOOLEAN :
        LET f == findTaskByUID(objects, uid, localOff)
            done == f.state = "ok" /\ putOk
        IN  /\ objects' = IF done THEN UpdateTask(objects, UncompleteTask(f.task), Now)
                           ELSE objects
            /\ lastCmd' = [op |-> "undo", uid |-> uid,
                           state |-> IF done THEN "ok" ELSE "err"]
    /\ clock' = clock + 1
    /\ UNCHANGED <<mapperVars, listOut, appVars>>

TaskNext ==
    \/ DoTasksAdd
    \/ DoTasksUpdate
    \/ DoTasksDone
    \/ DoTasksUndo

TaskSpec == Init /\ [][TaskNext]_vars

\* auth add: Config.AddAccount
DoAddAccount ==
    /\ \E email \in AccountEmails, setOk \in BOOLEAN, saveOk \in BOOLEAN :
        LET r == AddAccount(accounts, defaultAccount, stored, Account(email), <<"p">>,
                            setOk, saveOk)
        IN  /\ accounts' = r.accounts
            /\ defaultAccount' = r.defaultAccount
            /\ stored' = r.stored
            /\ cfgOut' = [op |-> "AddAccount", email |-> email, err |-> r.err,
                          accounts |-> accounts, defaultAccount |-> defaultAccount]
    /\ UNCHANGED <<mapperVars, serverVars, cliVars, env, calls, outbox, search>>

\* auth remove: Config.RemoveAccount
DoRemoveAccount ==
    /\ \E email \in AccountEmails, delOk \in BOOLEAN, saveOk \in BOOLEAN,
          next \in AccountEmails :
        /\ (DOMAIN accounts \ {email} = {} \/ next \in DOMAIN accounts \ {email})
        /\ LET r == RemoveAccount(accounts, defaultAccount, stored, email, next, delOk,
                                  saveOk)
           IN  /\ accounts' = r.accounts
               /\ defaultAccount' = r.defaultAccount
               /\ stored' = r.stored
               /\ cfgOut' = [op |-> "RemoveAccount", email |-> email, err |-> r.err,
                             accounts |-> accounts, defaultAccount |-> defaultAccount]
    /\ UNCHANGED <<mapperVars, serverVars, cliVars, env, calls, outbox, search>>

\* auth password: SetPasswordForProtocol
DoSetPasswordForProtocol ==
    /\ \E protocol \in {ProtocolDefault, ProtocolSMTP}, password \in PasswordInputs :
        /\ stored' = SetPasswordForProtocol(stored, AddrA, protocol, password, TRUE)
        /\ cfgOut' = [op |-> "SetPasswordForProtocol", email |-> AddrA, err |-> FALSE,
                      accounts |-> accounts, defaultAccount |-> defaultAccount]
    /\ UNCHANGED <<mapperVars, serverVars, cliVars, accounts, defaultAccount, env, calls,
                   outbox, search>>

\* a command asks for the password of a protocol
DoGetPasswordForProtocol ==
    /\ \E protocol \in {ProtocolDefault, ProtocolSMTP}, up \in BOOLEAN :
        cfgOut' = [op |-> "GetPasswordForProtocol", email |-> AddrA,
                   protocol |-> protocol, up |-> up,
                   res |-> GetPasswordForProtocol(stored, env, AddrA, protocol, up),
                   accounts |-> accounts, defaultAccount |-> defaultAccount]
    /\ UNCHANGED <<mapperVars, serverVars, cliVars, accounts, defaultAccount, stored, env,
                   calls, outbox, search>>

\* the task list was written by other CalDAV clients before the first command
OtherClientPuts ==
    /\ objects = <<>>
    /\ lastCmd = NoCmd
    /\ objects' \in AuthoredLists
    /\ UNCHANGED <<mapperVars, listOut, clock, lastCmd, appVars>>

ServerTaskNext ==
    \/ OtherClientPuts
    \/ DoTasksDone
    \/ DoTasksUndo

ServerTaskSpec == Init /\ [][ServerTaskNext]_vars

\* a message left the SMTP client
Sent(cmd, uid, msg, file) ==
    [cmd |-> cmd, uid |-> uid, from |-> msg.From, to |-> msg.To,
     part |-> CalendarPart(msg), answers |-> file]

\* the invitations in the outbox, as files the recipient saved
ReceivedInvitations ==
    {outbox[k].part.data : k \in {j \in 1..Len(outbox) : outbox[j].cmd = "send"}}

\* the UIDs the invite send command printed
IssuedUIDs == {outbox[k].uid : k \in {j \in 1..Len(outbox) : outbox[j].cmd = "send"}}

\* invite send; sendOk is false when the account, its password or the SMTP
\* server is missing
DoInviteSend ==
    /\ clock < TicksPerSec + MaxMails
    /\ \E email \in {AddrA}, attendees \in {<<AddrA, AddrB>>}, sendOk \in BOOLEAN :
        LET i == SendInvite(email, <<"s">>, attendees,
                            Int2Time(MaxSec * TicksPerSec, localOff),
                            Int2Time((MaxSec + 1) * TicksPerSec, localOff), Now)
            data == CreateInvite(i, Now)
            ok == data.state = "ok" /\ sendOk
        IN  /\ outbox' = IF ok
                          THEN Append(outbox, Sent("send", i.UID, Message(email, attendees, data,
                                                                   i.Method), NoBytes))
                          ELSE outbox
            /\ lastCmd' = [op |-> "send", uid |-> i.UID,
                           state |-> IF ok THEN "ok" ELSE "err"]
    /\ clock' = clock + 1
    /\ UNCHANGED <<mapperVars, objects, listOut, cfgVars, calls, search>>

\* invite reply FILE --status
DoInviteReply ==
    /\ clock < TicksPerSec + MaxMails
    /\ \E file \in ReceivedInvitations \cup ForeignInvitations \cup {NoBytes},
          flag \in {"accept", "decline", "tentative"}, sendOk \in BOOLEAN :
        LET p == ParseInvite(file)
            r == ReplyResponse(AddrB, p.invite, flag, <<>>)
            data == CreateReply(r, Now)
            ok == p.state = "ok" /\ data.state = "ok" /\ sendOk
        IN  /\ ~sendOk => flag = "accept"
            /\ outbox' = IF ok
                          THEN Append(outbox,
                                      Sent("reply", p.invite.UID,
                                           Message(AddrB, <<p.invite.Organizer.Email>>,
                                                   data, MethodReply), file))
                          ELSE outbox
            /\ lastCmd' = [op |-> "reply", uid |-> IF p.state = "ok" THEN p.invite.UID ELSE <<>>,
                           state |-> IF ok THEN "ok" ELSE "err"]
    /\ clock' = clock + 1
    /\ UNCHANGED <<mapperVars, objects, listOut, cfgVars, calls, search>>

\* invite cancel UID ATTENDEES
DoInviteCancel ==
    /\ clock < TicksPerSec + MaxMails
    /\ \E uid \in IssuedUIDs \cup {UnknownUID}, email \in {AddrA}, sendOk \in BOOLEAN :
        LET data == InviteCancel(uid, email, <<AddrB>>, Now)
            ok == data.state = "ok" /\ sendOk
        IN  /\ outbox' = IF ok
                          THEN Append(outbox, Sent("cancel", uid, Message(email, <<AddrB>>, data,
                                                                     MethodCancel), NoBytes))
                          ELSE outbox
            /\ lastCmd' = [op |-> "cancel", uid |-> uid,
                           state |-> IF ok THEN "ok" ELSE "err"]
    /\ clock' = clock + 1
    /\ UNCHANGED <<mapperVars, objects, listOut, cfgVars, calls, search>>

MailNext ==
    \/ DoInviteSend
    \/ DoInviteReply
    \/ DoInviteCancel

MailSpec == Init /\ [][MailNext]_vars

\* mail search QUERY
DoSearch ==
    /\ search = NoSearch
    /\ \E query \in Queries :
        search' = [query |-> query, out |-> parseSearchQuery(query)]
    /\ UNCHANGED <<mapperVars, serverVars, cliVars, cfgVars, calls, outbox>>

\* the command returns
SearchReturn ==
    /\ search /= NoSearch
    /\ search' = NoSearch
    /\ UNCHANGED <<mapperVars, serverVars, cliVars, cfgVars, calls, outbox>>

SearchNext ==
    \/ DoSearch
    \/ SearchReturn

SearchSpec == Init /\ [][SearchNext]_vars

\* the functions of the two mappers, called from several goroutines
Functions ==
    {"CreateInvite", "CreateReply", "CreateCancel", "ParseInvite", "createICalEvent",
     "parseICalEvent"}

\* what a function is called with
InviteArgs ==
    {i \in InviteInputs : /\ Len(i.Attendees) = 1
                          /\ i.Method = MethodRequest
                          /\ i.Sequence = 0
                          /\ i.Organizer.Name = <<>>
                          /\ i.Attendees[1].Name = <<>>
                          /\ Len(i.Summary) = 1}

ResponseArgs ==
    {r \in ResponseInputs : /\ r.UID = <<"m", "1">>
                            /\ r.Status = <<"ACCEPTED">>
                            /\ r.Comment = <<>>
                            /\ r.Sequence = 0
                            /\ r.Organizer.Name = <<>>}

CancelArgs ==
    {c \in CancelInputs : /\ c.uid = <<"m", "1">>
                          /\ c.sequence = 1
                          /\ Len(c.attendees) = 1
                          /\ c.organizer.Name = <<>>
                          /\ c.attendees[1].Name = <<>>}

EventArgs ==
    {e \in EventInputs(0) : /\ e.Attendees = <<>>
                            /\ e.Organizer = <<>>
                            /\ ~e.AllDay
                            /\ e.Status /= <<>>
                            /\ Len(e.Summary) = 1
                            /\ e.Start.t > 0}

ArgsOf(fn) ==
    CASE fn = "CreateInvite" -> InviteArgs
      [] fn = "CreateReply" -> ResponseArgs
      [] fn = "CreateCancel" -> CancelArgs
      [] fn = "ParseInvite" -> {CreateInvite(i, n) : i \in InviteArgs, n \in Nows}
      [] fn = "createICalEvent" -> EventArgs
      [] fn = "parseICalEvent" ->
            {createICalEvent(e, n) : e \in EventArgs, n \in Nows}

\* the clock readings of concurrent calls
CallNows == Nows \cup {[t |-> (MaxSec + 2) * TicksPerSec, off |-> 0]}

\* the first half of a function: the calendar it builds or decodes, a local
\* variable of the call
Building(fn, arg, now) ==
    CASE fn = "CreateInvite" -> InviteCalendar(arg, now)
      [] fn = "CreateReply" -> ReplyCalendar(arg, now)
      [] fn = "CreateCancel" ->
            CancelCalendar(arg.uid, arg.organizer, arg.attendees, arg.sequence, now)
      [] fn = "ParseInvite" -> Decode(arg)
      [] fn = "createICalEvent" -> createICalEvent(arg, now)
      [] fn = "parseICalEvent" -> arg
      [] OTHER -> <<>>

\* the second half: what is returned, from the local calendar
Returning(fn, arg, mid, now, loc) ==
    CASE fn = "CreateInvite" -> Encode(mid)
      [] fn = "CreateReply" -> Encode(mid)
      [] fn = "CreateCancel" -> Encode(mid)
      [] fn = "ParseInvite" -> ParseInvite(arg)
      [] fn = "createICalEvent" -> mid
      [] fn = "parseICalEvent" -> parseICalEvent(mid, loc)
      [] OTHER -> <<>>

\* the function run alone
Alone(fn, arg, now, loc) ==
    CASE fn = "CreateInvite" -> CreateInvite(arg, now)
      [] fn = "CreateReply" -> CreateReply(arg, now)
      [] fn = "CreateCancel" ->
            CreateCancel(arg.uid, arg.organizer, arg.attendees, arg.sequence, now)
      [] fn = "ParseInvite" -> ParseInvite(arg)
      [] fn = "createICalEvent" -> createICalEvent(arg, now)
      [] fn = "parseICalEvent" -> parseICalEvent(arg, loc)
      [] OTHER -> <<>>

\* variant: the calendar under construction is a package-level variable, the
\* one the first goroutine writes
FrameShared(cs, w) == [cs[w] EXCEPT !.mid = cs[1].mid]

\* the local variables of goroutine w's call: each call has its own
Frame(cs, w) == cs[w]

\* a goroutine calls a function: the arguments and the clock reading
GoCall ==
    /\ \E w \in Goroutines, fn \in Functions, now \in CallNows :
        /\ calls[w].pc = "idle"
        /\ \E arg \in ArgsOf(fn) :
            calls' = [calls EXCEPT ![w] = [NoCall EXCEPT !.pc = "called", !.fn = fn,
                                                         !.arg = arg, !.in = arg,
                                                         !.now = now]]
    /\ UNCHANGED <<mapperVars, serverVars, cliVars, cfgVars, outbox, search>>

\* it builds or decodes its calendar
GoBuild ==
    /\ \E w \in Goroutines :
        /\ calls[w].pc = "called"
        /\ LET f == Frame(calls, w)
           IN  calls' = [calls EXCEPT ![w].pc = "built",
                                      ![w].mid = Building(f.fn, f.arg, f.now)]
    /\ UNCHANGED <<mapperVars, serverVars, cliVars, cfgVars, outbox, search>>

\* it returns
GoReturn ==
    /\ \E w \in Goroutines :
        /\ calls[w].pc = "built"
        /\ LET f == Frame(calls, w)
           IN  calls' = [calls EXCEPT ![w].pc = "done",
                                      ![w].result = Returning(f.fn, f.arg, f.mid, f.now,
                                                              localOff)]
    /\ UNCHANGED <<mapperVars, serverVars, cliVars, cfgVars, outbox, search>>

\* the caller drops the result
GoDone ==
    /\ \E w \in Goroutines :
        /\ calls[w].pc = "done"
        /\ calls' = [calls EXCEPT ![w] = NoCall]
    /\ UNCHANGED <<mapperVars, serverVars, cliVars, cfgVars, outbox, search>>

CallNext ==
    \/ GoCall
    \/ GoBuild
    \/ GoReturn
    \/ GoDone

CallSpec == Init /\ [][CallNext]_vars

ConfigNext ==
    \/ DoAddAccount
    \/ DoRemoveAccount
    \/ DoSetPasswordForProtocol
    \/ DoGetPasswordForProtocol

ConfigInit == InitButEnv /\ env \in Environments

ConfigSpec == ConfigInit /\ [][ConfigNext]_vars

ListNext ==
    \/ DoListEvents
    \/ DoListTasks
    \/ DoGetEvent
    \/ ListReturn

ListSpec == Init /\ [][ListNext]_vars

Next ==
    \/ DoCreateICalEvent
    \/ DoCreateICalTask
    \/ ReceiveCalendar
    \/ DoParseICalEvent
    \/ DoParseICalTask
    \/ DoCreateInvite
    \/ DoCreateReply
    \/ DoCreateCancel
    \/ ReceiveMail
    \/ DoParseInvite
    \/ DoParseWireEvent
    \/ Return

Spec == Init /\ [][Next]_vars

-----------------------------------------------------------------------------
(* Claims *)

\* the properties of the first component of the given kind in the held calendar
FirstProps(c, kind) == c.children[FirstChild(c, kind)].props

HasKind(c, kind) == ~c.isNil /\ FirstChild(c, kind) /= 0

\* the e-mail addresses of a list of participants
Emails(ps) == [k \in 1..Len(ps) |-> ps[k].Email]

\* C1: every Event handed to createICalEvent and parsed back by parseICalEvent
\* comes back with the same UID, summary, description, location, start and end
\* instants, all-day flag, organizer and ordered attendee list.
C1_EventRoundTrip ==
    (calSrc = "create" /\ evOut.state /= "none") =>
        /\ evOut.state = "ok"
        /\ evOut.event.UID = ev.UID
        /\ evOut.event.Summary = ev.Summary
        /\ evOut.event.Description = ev.Description
        /\ evOut.event.Location = ev.Location
        /\ evOut.event.Start.t = ev.Start.t
        /\ evOut.event.End.t = ev.End.t
        /\ evOut.event.AllDay = ev.AllDay
        /\ evOut.event.Organizer = ev.Organizer
        /\ evOut.event.Attendees = ev.Attendees

\* C2: ParseInvite of CreateInvite's output returns exactly the input's
\* attendees: as many, in the same order, with the same address, display name
\* and RSVP flag.
C2_InviteAttendeesComplete ==
    (wireSrc = "invite" /\ invOut.state /= "none") =>
        /\ invOut.state = "ok"
        /\ Len(invOut.invite.Attendees) = Len(inv.Attendees)
        /\ \A k \in 1..Len(inv.Attendees) :
              /\ invOut.invite.Attendees[k].Email = inv.Attendees[k].Email
              /\ invOut.invite.Attendees[k].Name = inv.Attendees[k].Name
              /\ invOut.invite.Attendees[k].RSVP = inv.Attendees[k].RSVP

\* C3: whatever status the input attendees carry, every attendee ParseInvite
\* returns from CreateInvite's output has status NEEDS-ACTION, and the
\* document's method is REQUEST.
C3_InviteResetsStatus ==
    (wireSrc = "invite" /\ invOut.state /= "none") =>
        /\ invOut.state = "ok"
        /\ invOut.invite.Method = <<"REQUEST">>
        /\ \A k \in 1..Len(invOut.invite.Attendees) :
              invOut.invite.Attendees[k].Status = <<"NEEDS-ACTION">>

\* C3 witness: an invitation whose last attendee had already accepted, declined
\* or tentatively accepted was encoded and decoded, and an attendee came back
C3_Witness ==
    /\ wireSrc = "invite"
    /\ invOut.state = "ok"
    /\ inv.Attendees /= <<>>
    /\ inv.Attendees[Len(inv.Attendees)].Status \in {<<"ACCEPTED">>, <<"DECLINED">>, <<"TENTATIVE">>}
    /\ invOut.invite.Attendees /= <<>>

\* C4: parseICalEvent sets AllDay exactly when the start property of the first
\* VEVENT carries the parameter VALUE=DATE, whatever its clock time; an Event
\* encoded by createICalEvent comes back with the all-day flag it had, also when
\* a timed Event starts and ends at midnight.
C4_AllDayFromValueType ==
    /\ evOut.state = "ok" =>
          LET P == FirstProps(cal, "VEVENT")
          IN  evOut.event.AllDay =
                  (\E k \in 1..Len(P) :
                      /\ P[k].name = "DTSTART"
                      /\ \A j \in 1..(k - 1) : P[j].name /= "DTSTART"
                      /\ \E q \in 1..Len(P[k].params) :
                            P[k].params[q] = [k |-> "VALUE", v |-> <<"DATE">>])
    /\ (calSrc = "create" /\ evOut.state /= "none") =>
          /\ evOut.state = "ok"
          /\ evOut.event.AllDay = ev.AllDay

\* C4 witness: a timed Event that starts and ends at midnight was encoded and
\* decoded, and came back not all-day
C4_Witness ==
    /\ calSrc = "create"
    /\ evOut.state = "ok"
    /\ ~ev.AllDay
    /\ IsMidnight(ev.Start)
    /\ IsMidnight(ev.End)
    /\ ~evOut.event.AllDay

\* C5: when the first VEVENT has a start property that parses, a duration
\* property that parses and no end property, parseICalEvent returns End equal to
\* Start plus the duration.
C5_DurationFallback ==
    (calSrc = "server" /\ evOut.state = "ok") =>
        LET P == FirstProps(cal, "VEVENT")
        IN  (/\ Has(P, "DTSTART")
             /\ ~PropDateTime(Get(P, "DTSTART"), localOff).err
             /\ Has(P, "DURATION")
             /\ ~PropDuration(Get(P, "DURATION")).err
             /\ ~Has(P, "DTEND")) =>
                /\ evOut.event.Start = PropDateTime(Get(P, "DTSTART"), localOff).time
                /\ evOut.event.End =
                       TimeAdd(evOut.event.Start, PropDuration(Get(P, "DURATION")).secs)

\* C6: ParseInvite of a document that decodes fails exactly when the document
\* holds no VEVENT component.
C6_ParseInviteNeedsEvent ==
    (wireSrc /= "none" /\ invOut.state /= "none" /\ wire.state = "ok") =>
        (invOut.state = "ok" <=>
            \E k \in 1..Len(wire.children) : wire.children[k].name = "VEVENT")

\* C7: parseICalEvent fails exactly when the calendar is nil or has no VEVENT
\* child, and parseICalTask fails exactly when the calendar is nil or has no
\* VTODO child; children of the other kind do not count.
C7_DecodeFailsWithoutMatch ==
    /\ evOut.state /= "none" =>
          (evOut.state = "err" <=>
              (cal.isNil \/ \A k \in 1..Len(cal.children) : cal.children[k].name /= "VEVENT"))
    /\ taskOut.state /= "none" =>
          (taskOut.state = "err" <=>
              (cal.isNil \/ \A k \in 1..Len(cal.children) : cal.children[k].name /= "VTODO"))

\* C7 witness: a calendar that holds only VTODO children was given to both
\* decoders: the Event decoder failed and the Task decoder did not
C7_Witness ==
    /\ calSrc = "server"
    /\ ~cal.isNil
    /\ cal.children /= <<>>
    /\ \A k \in 1..Len(cal.children) : cal.children[k].name = "VTODO"
    /\ evOut.state = "err"
    /\ taskOut.state = "ok"

\* the calendar without the named property on its first component of the kind
WithoutProp(c, kind, name) ==
    [c EXCEPT !.children[FirstChild(c, kind)].props = PropsDel(@, name)]

\* the first component of the kind has the named date property and it does not parse
Malformed(c, kind, name, loc) ==
    /\ HasKind(c, kind)
    /\ Has(FirstProps(c, kind), name)
    /\ PropDateTime(Get(FirstProps(c, kind), name), loc).err

TaskField(name) ==
    CASE name = "DUE" -> "Due" [] name = "DTSTART" -> "Start" [] name = "COMPLETED" -> "Completed"

\* a VTODO date that does not parse: no error, the field is zero, the rest as if absent
TaskTolerates(name) ==
    (taskOut.state /= "none" /\ Malformed(cal, "VTODO", name, localOff)) =>
        /\ taskOut.state = "ok"
        /\ taskOut.task[TaskField(name)] = ZeroTime
        /\ taskOut = parseICalTask(WithoutProp(cal, "VTODO", name), localOff)

\* a VEVENT end that does not parse: no error, End is zero, the rest as if absent
EventToleratesEnd ==
    (evOut.state /= "none" /\ Malformed(cal, "VEVENT", "DTEND", localOff)) =>
        /\ evOut.state = "ok"
        /\ evOut.event.End = ZeroTime
        /\ LET absent == parseICalEvent(WithoutProp(cal, "VEVENT", "DTEND"), localOff)
           IN  /\ absent.state = "ok"
               /\ evOut.event = [absent.event EXCEPT !.End = ZeroTime]

\* C8 as stated: a date of the first VTODO (due, start, completed) or VEVENT
\* (start, end) that does not parse gives no error, leaves its field at the zero
\* instant and every other field exactly as if the property were absent.
C8_MalformedAsAbsent ==
    /\ \A name \in {"DUE", "DTSTART", "COMPLETED"} : TaskTolerates(name)
    /\ EventToleratesEnd
    /\ (evOut.state /= "none" /\ Malformed(cal, "VEVENT", "DTSTART", localOff)) =>
          /\ evOut.state = "ok"
          /\ evOut.event.Start = ZeroTime
          /\ evOut = parseICalEvent(WithoutProp(cal, "VEVENT", "DTSTART"), localOff)

\* C8 amended: as C8, except that after a VEVENT start that does not parse the
\* all-day flag is not as if the property were absent: it is still set exactly
\* when that start property carries VALUE=DATE.
C8_MalformedAsAbsentButAllDay ==
    /\ \A name \in {"DUE", "DTSTART", "COMPLETED"} : TaskTolerates(name)
    /\ EventToleratesEnd
    /\ (evOut.state /= "none" /\ Malformed(cal, "VEVENT", "DTSTART", localOff)) =>
          /\ evOut.state = "ok"
          /\ evOut.event.Start = ZeroTime
          /\ LET absent == parseICalEvent(WithoutProp(cal, "VEVENT", "DTSTART"), localOff)
                 start == Get(FirstProps(cal, "VEVENT"), "DTSTART")
             IN  /\ absent.state = "ok"
                 /\ [evOut.event EXCEPT !.AllDay = FALSE] = absent.event
                 /\ evOut.event.AllDay = (ParamGet(start.params, "VALUE") = <<"DATE">>)

\* C8 witness: a document whose VTODO has a due date that does not parse and
\* whose VEVENT has a VALUE=DATE start that does not parse was decoded both ways:
\* the Task has its priority and status, the Event is all-day with a zero start
C8_Witness ==
    /\ calSrc = "server"
    /\ Malformed(cal, "VTODO", "DUE", localOff)
    /\ Malformed(cal, "VEVENT", "DTSTART", localOff)
    /\ taskOut.state = "ok"
    /\ taskOut.task.Due = ZeroTime
    /\ taskOut.task.Priority = 5
    /\ taskOut.task.Status = <<"COMPLETED">>
    /\ evOut.state = "ok"
    /\ evOut.event.Start = ZeroTime
    /\ evOut.event.AllDay

\* an address that still starts with the transport prefix in some letter case
Prefixed(a) == HasPrefix(ToLower(a), Mailto)

\* C9: no organizer or attendee address decoded by parseICalEvent or by
\* ParseInvite from a received document starts with mailto: in any letter case.
C9_PrefixStrippedAnyCase ==
    /\ (calSrc = "server" /\ evOut.state = "ok") =>
          /\ ~Prefixed(evOut.event.Organizer)
          /\ \A k \in 1..Len(evOut.event.Attendees) : ~Prefixed(evOut.event.Attendees[k])
    /\ (wireSrc = "mail" /\ invOut.state = "ok") =>
          /\ ~Prefixed(invOut.invite.Organizer.Email)
          /\ \A k \in 1..Len(invOut.invite.Attendees) :
                ~Prefixed(invOut.invite.Attendees[k].Email)

\* the values of the named properties of the only component of a document
EncodedValues(doc, name) ==
    LET ps == Values(doc.children[1].props, name)
    IN  [k \in 1..Len(ps) |-> ps[k].value.s]

\* C10: the organizer and every attendee of an Invite encoded by CreateInvite,
\* and of an Event encoded by createICalEvent, is written as mailto: followed by
\* the address and is decoded (ParseInvite, parseICalEvent) to exactly the address.
C10_AddressRoundTrip ==
    /\ (wireSrc = "invite" /\ invOut.state /= "none") =>
          /\ wire.state = "ok"
          /\ EncodedValues(wire, "ORGANIZER") = <<Mailto \o inv.Organizer.Email>>
          /\ EncodedValues(wire, "ATTENDEE") =
                 [k \in 1..Len(inv.Attendees) |-> Mailto \o inv.Attendees[k].Email]
          /\ invOut.state = "ok"
          /\ invOut.invite.Organizer.Email = inv.Organizer.Email
          /\ Emails(invOut.invite.Attendees) = Emails(inv.Attendees)
    /\ (calSrc = "create" /\ evOut.state /= "none") =>
          /\ EncodedValues(cal, "ORGANIZER") =
                 (IF ev.Organizer = <<>> THEN <<>> ELSE <<Mailto \o ev.Organizer>>)
          /\ EncodedValues(cal, "ATTENDEE") =
                 [k \in 1..Len(ev.Attendees) |-> Mailto \o ev.Attendees[k]]
          /\ evOut.state = "ok"
          /\ evOut.event.Organizer = ev.Organizer
          /\ evOut.event.Attendees = ev.Attendees

\* C11: the bytes CreateReply returns, decoded and read by parseICalEvent, give
\* an Event with empty summary, description and location, zero start and end,
\* and the Response's UID.
C11_ReplyOmitsContent ==
    (wireSrc = "reply" /\ wireEvOut.state /= "none") =>
        /\ wireEvOut.state = "ok"
        /\ wireEvOut.event.Summary = <<>>
        /\ wireEvOut.event.Description = <<>>
        /\ wireEvOut.event.Location = <<>>
        /\ IsZero(wireEvOut.event.Start)
        /\ IsZero(wireEvOut.event.End)
        /\ wireEvOut.event.UID = resp.UID

\* the parameter is not written on the property
LacksParam(prop, k) == \A q \in 1..Len(prop.params) : prop.params[q].k /= k

\* the properties of the named kind on the only component of a document
EncodedProps(doc, name) == Values(doc.children[1].props, name)

\* C12: the document CreateReply returns has method REPLY, exactly one attendee
\* (the responder's address, the Response's status) and the Response's
\* organizer; ParseInvite returns these values and the Response's sequence.
C12_ReplyParticipants ==
    (wireSrc = "reply" /\ invOut.state /= "none") =>
        /\ wire.state = "ok"
        /\ Values(wire.props, "METHOD") = <<NewProp("METHOD", StrVal(<<"REPLY">>))>>
        /\ Len(EncodedProps(wire, "ATTENDEE")) = 1
        /\ EncodedValues(wire, "ATTENDEE") = <<Mailto \o resp.Attendee.Email>>
        /\ ParamGet(EncodedProps(wire, "ATTENDEE")[1].params, "PARTSTAT") = resp.Status
        /\ EncodedValues(wire, "ORGANIZER") = <<Mailto \o resp.Organizer.Email>>
        /\ invOut.state = "ok"
        /\ invOut.invite.Method = <<"REPLY">>
        /\ Len(invOut.invite.Attendees) = 1
        /\ invOut.invite.Attendees[1].Email = resp.Attendee.Email
        /\ invOut.invite.Attendees[1].Status = resp.Status
        /\ invOut.invite.Organizer.Email = resp.Organizer.Email
        /\ invOut.invite.Organizer.Name = resp.Organizer.Name
        /\ invOut.invite.Sequence = resp.Sequence

\* C12 witness: a reply whose status differs from the status on the responder's
\* own Participant, with a named organizer and a sequence above 0, was decoded
C12_Witness ==
    /\ wireSrc = "reply"
    /\ invOut.state = "ok"
    /\ resp.Status /= resp.Attendee.Status
    /\ resp.Status /= <<>>
    /\ resp.Organizer.Name /= <<>>
    /\ resp.Sequence > 0
    /\ invOut.invite.Attendees[1].Status = resp.Status

\* C13: the document CreateCancel returns has method CANCEL, status CANCELLED
\* and the sequence number as supplied; ParseInvite returns method CANCEL, the
\* uid supplied and the sequence supplied.
C13_CancelHeader ==
    (wireSrc = "cancel" /\ invOut.state /= "none") =>
        /\ wire.state = "ok"
        /\ Values(wire.props, "METHOD") = <<NewProp("METHOD", StrVal(<<"CANCEL">>))>>
        /\ EncodedValues(wire, "STATUS") = <<<<"CANCELLED">>>>
        /\ EncodedProps(wire, "SEQUENCE") = <<NewProp("SEQUENCE", NumVal("int", cancel.sequence))>>
        /\ invOut.state = "ok"
        /\ invOut.invite.Method = <<"CANCEL">>
        /\ invOut.invite.Sequence = cancel.sequence
        /\ invOut.invite.UID = cancel.uid

\* C14: the document CreateCancel returns carries every attendee supplied, once
\* and in order, none with a PARTSTAT parameter; ParseInvite returns as many
\* attendees, each with empty status.
C14_CancelAttendees ==
    (wireSrc = "cancel" /\ invOut.state /= "none") =>
        /\ wire.state = "ok"
        /\ EncodedValues(wire, "ATTENDEE") =
               [k \in 1..Len(cancel.attendees) |-> Mailto \o cancel.attendees[k].Email]
        /\ \A k \in 1..Len(EncodedProps(wire, "ATTENDEE")) :
              LacksParam(EncodedProps(wire, "ATTENDEE")[k], "PARTSTAT")
        /\ invOut.state = "ok"
        /\ Len(invOut.invite.Attendees) = Len(cancel.attendees)
        /\ \A k \in 1..Len(invOut.invite.Attendees) :
              invOut.invite.Attendees[k].Status = <<>>

\* the document has no METHOD property
LacksMethod(doc) == \A k \in 1..Len(doc.props) : doc.props[k].name /= "METHOD"

\* C15: ParseInvite returns the empty Method for a document without a METHOD
\* property, never REQUEST, and the value of the first METHOD property
\* otherwise.
C15_MethodVerbatim ==
    (wireSrc /= "none" /\ invOut.state = "ok") =>
        /\ LacksMethod(wire) => invOut.invite.Method = <<>>
        /\ \A k \in 1..Len(wire.props) :
              (wire.props[k].name = "METHOD"
                  /\ \A j \in 1..(k - 1) : wire.props[j].name /= "METHOD")
              => invOut.invite.Method = wire.props[k].value.s

\* C15 witness: a received document without METHOD that holds a VEVENT was
\* decoded and the Invite has the empty Method
C15_Witness ==
    /\ wireSrc = "mail"
    /\ wire.state = "ok"
    /\ LacksMethod(wire)
    /\ \E k \in 1..Len(wire.children) : wire.children[k].name = "VEVENT"
    /\ invOut.state = "ok"
    /\ invOut.invite.Method = <<>>

\* the k-th component is the first of its kind in document order
IsFirst(children, k, kind) ==
    /\ children[k].name = kind
    /\ \A j \in 1..(k - 1) : children[j].name /= kind

\* the document reduced to its k-th component
OnlyChild(doc, k) == [doc EXCEPT !.children = <<doc.children[k]>>]

\* C16: parseICalEvent, parseICalTask and ParseInvite return what they return
\* for the document reduced to its first component of the expected kind: later
\* components of that kind and earlier components of other kinds change nothing.
C16_FirstComponentOnly ==
    /\ (calSrc = "server" /\ evOut.state /= "none") =>
          \A k \in 1..Len(cal.children) :
              IsFirst(cal.children, k, "VEVENT") =>
                  evOut = parseICalEvent(OnlyChild(cal, k), localOff)
    /\ (calSrc = "server" /\ taskOut.state /= "none") =>
          \A k \in 1..Len(cal.children) :
              IsFirst(cal.children, k, "VTODO") =>
                  taskOut = parseICalTask(OnlyChild(cal, k), localOff)
    /\ (wireSrc = "mail" /\ invOut.state /= "none" /\ wire.state = "ok") =>
          \A k \in 1..Len(wire.children) :
              IsFirst(wire.children, k, "VEVENT") =>
                  invOut = ParseInvite(OnlyChild(wire, k))

\* C16 witness: a server document with two different VEVENTs was decoded and
\* the Event carries the UID of the first, not of the second
C16_Witness ==
    /\ calSrc = "server"
    /\ Len(cal.children) >= 2
    /\ cal.children[1].name = "VEVENT"
    /\ cal.children[2].name = "VEVENT"
    /\ TextOf(cal.children[1].props, "UID") /= TextOf(cal.children[2].props, "UID")
    /\ evOut.state = "ok"
    /\ evOut.event.UID = TextOf(cal.children[1].props, "UID")

\* C20: createICalEvent emits one ATTENDEE property per entry of
\* Event.Attendees, in order, and each of them carries a PARTSTAT parameter
\* whose value is NEEDS-ACTION.
C20_AttendeeEncoding ==
    calSrc = "create" =>
        LET atts == Values(FirstProps(cal, "VEVENT"), "ATTENDEE")
        IN  /\ Len(atts) = Len(ev.Attendees)
            /\ \A k \in 1..Len(atts) :
                /\ atts[k].value = StrVal(Mailto \o ev.Attendees[k])
                /\ ParamGet(atts[k].params, "PARTSTAT") = StatusNeedsAction

\* C20, the part the code keeps: one ATTENDEE per entry, in order
C20_AttendeeOrder ==
    calSrc = "create" =>
        LET atts == Values(FirstProps(cal, "VEVENT"), "ATTENDEE")
        IN  /\ Len(atts) = Len(ev.Attendees)
            /\ \A k \in 1..Len(atts) :
                atts[k].value = StrVal(Mailto \o ev.Attendees[k])

\* C19 as stated: for every Task with one of the four status values, a percent
\* in 0..100 and the completion instant set or unset, createICalTask followed
\* by parseICalTask returns the same status, percent and completion instant.
C19_TaskStateRoundTrip ==
    (calSrc = "createTask" /\ taskOut.state /= "none") =>
        /\ taskOut.state = "ok"
        /\ taskOut.task.Status = task.Status
        /\ taskOut.task.Percent = task.Percent
        /\ taskOut.task.Completed.t = task.Completed.t

\* Prop.SetDateTime keeps whole seconds
TruncateSecond(x) == (x.t \div TicksPerSec) * TicksPerSec

\* C19: the same status and percent come back, and the completion instant
\* comes back cut to its whole second (unset stays unset).
C19_TaskStateRoundTripToSecond ==
    (calSrc = "createTask" /\ taskOut.state /= "none") =>
        /\ taskOut.state = "ok"
        /\ taskOut.task.Status = task.Status
        /\ taskOut.task.Percent = task.Percent
        /\ taskOut.task.Completed.t = TruncateSecond(task.Completed)
        /\ IsZero(taskOut.task.Completed) <=> IsZero(task.Completed)

\* an inconsistent Task went through both mappers
C19_Witness ==
    /\ calSrc = "createTask"
    /\ taskOut.state = "ok"
    /\ task.Percent = 100
    /\ task.Status = TaskStatusNeedsAction
    /\ ~IsZero(task.Completed)
    /\ task.Completed.t % TicksPerSec /= 0

\* the objects of the answer that hold a component of the kind, in server order
Matching(objs, kind) == SelectSeq(objs, LAMBDA o : HasKind(o.Data, kind))

ETagsOf(list) == [k \in 1..Len(list) |-> list[k].ETag]

\* GetEvent fails exactly when the answer is empty or its first object has no VEVENT
GetEventFailsLoudly ==
    (listOut.op = "GetEvent" /\ ~listOut.failed) =>
        /\ listOut.res.state = "err"
              <=> (Len(objects) = 0 \/ ~HasKind(objects[1].Data, "VEVENT"))
        /\ listOut.res.state = "ok" =>
              /\ listOut.res.items[1].item = parseICalEvent(objects[1].Data, localOff).event
              /\ listOut.res.items[1].ETag = objects[1].ETag

\* ListEvents returns every object that holds a VEVENT and never fails on one
ListEventsSurvives ==
    (listOut.op = "ListEvents" /\ ~listOut.failed) =>
        LET kept == Matching(objects, "VEVENT")
        IN  /\ listOut.res.state = "ok"
            /\ ETagsOf(listOut.res.items) = ETagsOf(kept)
            /\ \A k \in 1..Len(kept) :
                  listOut.res.items[k].item = parseICalEvent(kept[k].Data, localOff).event

\* C17 as stated: ListEvents and ListTasks never fail because of an object
\* that does not decode; every object without a matching component is skipped
\* and all the others are returned in server order, each with its own ETag;
\* GetEvent fails when the answer is empty or the fetched object has no VEVENT.
C17_BulkSkipsSingleFails ==
    /\ ListEventsSurvives
    /\ GetEventFailsLoudly
    /\ (listOut.op = "ListTasks" /\ ~listOut.failed) =>
        LET kept == Matching(objects, "VTODO")
        IN  /\ listOut.res.state = "ok"
            /\ ETagsOf(listOut.res.items) = ETagsOf(kept)
            /\ \A k \in 1..Len(kept) :
                  listOut.res.items[k].item = parseICalTask(kept[k].Data, localOff).task

\* the objects ListTasks keeps: those with a VTODO, less the COMPLETED ones
\* when completed tasks are not asked for
Listed(objs, includeCompleted, loc) ==
    SelectSeq(Matching(objs, "VTODO"),
              LAMBDA o : includeCompleted
                         \/ parseICalTask(o.Data, loc).task.Status /= TaskStatusCompleted)

\* C17: as above, where ListTasks returns all the objects that hold a VTODO
\* except, when completed tasks are not asked for, those whose status is
\* COMPLETED.
C17_BulkSkipsSingleFailsButFilter ==
    /\ ListEventsSurvives
    /\ GetEventFailsLoudly
    /\ (listOut.op = "ListTasks" /\ ~listOut.failed) =>
        LET kept == Listed(objects, listOut.includeCompleted, localOff)
        IN  /\ listOut.res.state = "ok"
            /\ ETagsOf(listOut.res.items) = ETagsOf(kept)
            /\ \A k \in 1..Len(kept) :
                  listOut.res.items[k].item = parseICalTask(kept[k].Data, localOff).task

\* a listing skipped an object without a VEVENT and kept the one after it
C17_Witness ==
    /\ listOut.op = "ListEvents"
    /\ ~listOut.failed
    /\ Len(objects) = 2
    /\ ~HasKind(objects[1].Data, "VEVENT")
    /\ HasKind(objects[2].Data, "VEVENT")
    /\ Len(listOut.res.items) = 1
    /\ listOut.res.items[1].ETag = objects[2].ETag
    /\ objects[1].ETag /= objects[2].ETag

\* the tasks of the list, as parseICalTask reads them
StoredTasks == {parseICalTask(objects[k].Data, localOff).task : k \in 1..Len(objects)}

\* C18: every task created by tasks add and changed by tasks update, done and
\* undo has its completion instant set only when its status is COMPLETED, and
\* has percent 100 only when its status is COMPLETED.
C18_TaskLifecycle ==
    \A t \in StoredTasks :
        /\ ~IsZero(t.Completed) => t.Status = TaskStatusCompleted
        /\ t.Percent = 100 => t.Status = TaskStatusCompleted

\* a task was added, marked done and then updated: it is still COMPLETED
C18_Witness ==
    /\ lastCmd.op = "update"
    /\ lastCmd.state = "ok"
    /\ \E t \in StoredTasks :
        /\ t.UID = lastCmd.uid
        /\ t.Summary = <<"r">>
        /\ t.Status = TaskStatusCompleted
        /\ t.Percent = 100
        /\ ~IsZero(t.Completed)

\* the SEQUENCE value is an integer and nothing else
IsInteger(v) == v.kind = "int"

\* C21: ParseInvite returns Sequence 0 whenever the event's SEQUENCE is absent
\* or is not an integer, never fails for that reason, and returns the exact
\* integer when the value is one.
C21_SequenceDefault ==
    (wireSrc = "mail" /\ invOut.state /= "none" /\ wire.state = "ok"
        /\ FirstChild(wire, "VEVENT") /= 0) =>
        LET props == wire.children[FirstChild(wire, "VEVENT")].props
        IN  /\ invOut.state = "ok"
            /\ invOut.invite.Sequence =
                  IF Has(props, "SEQUENCE") /\ IsInteger(Get(props, "SEQUENCE").value)
                  THEN Get(props, "SEQUENCE").value.n
                  ELSE 0

\* C22: after any sequence of AddAccount and RemoveAccount calls,
\* DefaultAccount is empty exactly when Accounts is empty and otherwise is the
\* key of an account; removing a non-default account leaves DefaultAccount
\* unchanged, removing the default account makes one of the remaining ones the
\* default, and removing an unknown account fails and changes nothing.
C22_DefaultAccount ==
    /\ defaultAccount = <<>> <=> DOMAIN accounts = {}
    /\ defaultAccount /= <<>> => defaultAccount \in DOMAIN accounts
    /\ cfgOut.op = "RemoveAccount" =>
        /\ cfgOut.email \notin DOMAIN cfgOut.accounts =>
              /\ cfgOut.err
              /\ accounts = cfgOut.accounts
              /\ defaultAccount = cfgOut.defaultAccount
        /\ (cfgOut.email \in DOMAIN cfgOut.accounts
            /\ cfgOut.email /= cfgOut.defaultAccount) =>
              defaultAccount = cfgOut.defaultAccount
        /\ (cfgOut.email \in DOMAIN cfgOut.accounts
            /\ cfgOut.email = cfgOut.defaultAccount
            /\ DOMAIN accounts /= {}) =>
              defaultAccount \in DOMAIN accounts

\* the same, as long as no account was ever added with an empty e-mail
C22_DefaultAccountNamed ==
    (<<>> \notin DOMAIN accounts /\ (cfgOut.op /= "none" => <<>> \notin DOMAIN cfgOut.accounts)
        /\ (cfgOut.op \in {"AddAccount", "RemoveAccount"} => cfgOut.email /= <<>>))
    => C22_DefaultAccount

\* the environment variables GetPasswordForProtocol may read for an account
\* and a protocol, in the order the code reads them
EnvKeysFor(email, protocol) ==
    IF protocol = ProtocolDefault
    THEN << <<"SOG_PASSWORD_">> \o sanitizeEnvKey(email) >>
    ELSE << <<"SOG_PASSWORD_">> \o sanitizeEnvKey(ProtocolKey(email, protocol)),
            <<"SOG_PASSWORD_">> \o sanitizeEnvKey(email) \o <<"_">> \o ToUpper(protocol),
            <<"SOG_PASSWORD_">> \o sanitizeEnvKey(email) >>

\* the values of those that are set
EnvValuesFor(e, email, protocol) ==
    {e[EnvKeysFor(email, protocol)[i]] :
        i \in {j \in DOMAIN EnvKeysFor(email, protocol) :
                  EnvSet(e, EnvKeysFor(email, protocol)[j])}}

\* C23: GetPasswordForProtocol returns the first password found among the
\* stored protocol-specific key, the stored default key and the environment,
\* in that order, so a stored password always wins over the environment, and
\* fails only when none of them has a password.
C23_LookupOrder ==
    (cfgOut.op = "GetPasswordForProtocol" /\ cfgOut.up) =>
        LET key == ProtocolKey(cfgOut.email, cfgOut.protocol)
            vals == EnvValuesFor(env, cfgOut.email, cfgOut.protocol)
        IN  IF cfgOut.protocol /= ProtocolDefault /\ key \in DOMAIN stored
            THEN cfgOut.res = Found(stored[key])
            ELSE IF cfgOut.email \in DOMAIN stored
            THEN cfgOut.res = Found(stored[cfgOut.email])
            ELSE IF vals /= {}
            THEN ~cfgOut.res.err /\ cfgOut.res.password \in vals
            ELSE cfgOut.res.err

\* what the code does instead: a protocol's environment variables are read
\* before the stored default key
C23_ProtocolEnvFirst ==
    (cfgOut.op = "GetPasswordForProtocol" /\ cfgOut.up) =>
        LET key == ProtocolKey(cfgOut.email, cfgOut.protocol)
            names == EnvKeysFor(cfgOut.email, cfgOut.protocol)
            proto == cfgOut.protocol /= ProtocolDefault
        IN  IF proto /\ key \in DOMAIN stored
            THEN cfgOut.res = Found(stored[key])
            ELSE IF proto /\ EnvSet(env, names[1])
            THEN cfgOut.res = Found(env[names[1]])
            ELSE IF proto /\ EnvSet(env, names[2])
            THEN cfgOut.res = Found(env[names[2]])
            ELSE IF cfgOut.email \in DOMAIN stored
            THEN cfgOut.res = Found(stored[cfgOut.email])
            ELSE IF EnvSet(env, names[Len(names)])
            THEN cfgOut.res = Found(env[names[Len(names)]])
            ELSE cfgOut.res.err

C25_EndBeforeDuration ==
    (calSrc = "server" /\ evOut.state = "ok") =>
        LET P == FirstProps(cal, "VEVENT")
        IN  /\ Has(P, "DTEND") =>
                LET r == PropDateTime(Get(P, "DTEND"), localOff)
                IN  evOut.event.End = IF r.err THEN ZeroTime ELSE r.time
            /\ (~Has(P, "DTEND") /\ ~IsZero(evOut.event.End)) =>
                /\ Has(P, "DURATION")
                /\ Has(P, "DTSTART")
                /\ ~PropDateTime(Get(P, "DTSTART"), localOff).err
                /\ evOut.event.End =
                       TimeAdd(evOut.event.Start, PropDuration(Get(P, "DURATION")).secs)

\* an event with a start, a malformed end and a valid duration was decoded
C25_Witness ==
    /\ calSrc = "server"
    /\ evOut.state = "ok"
    /\ LET P == FirstProps(cal, "VEVENT")
       IN  /\ Has(P, "DTEND")
           /\ PropDateTime(Get(P, "DTEND"), localOff).err
           /\ Has(P, "DURATION")
           /\ ~PropDuration(Get(P, "DURATION")).err
           /\ ~IsZero(evOut.event.Start)
           /\ IsZero(evOut.event.End)

\* the UID and SEQUENCE lines of a payload, as written
PayloadUID(doc) == Get(doc.children[1].props, "UID").value.s

PayloadSequence(doc) ==
    IF Has(doc.children[1].props, "SEQUENCE")
       /\ Get(doc.children[1].props, "SEQUENCE").value.kind = "int"
    THEN Get(doc.children[1].props, "SEQUENCE").value.n
    ELSE 0

\* C26: a cancellation sent by invite cancel has a sequence number strictly
\* greater than that of every invitation invite send issued before it for the
\* same UID (those have sequence 0), and a reply sent by invite reply carries
\* exactly the sequence number of the invitation it answers.
C26_SequenceOrdering ==
    \A j \in 1..Len(outbox) :
        /\ outbox[j].cmd = "send" => PayloadSequence(outbox[j].part.data) = 0
        /\ outbox[j].cmd = "cancel" =>
              \A i \in 1..(j - 1) :
                  (outbox[i].cmd = "send"
                   /\ PayloadUID(outbox[i].part.data) = PayloadUID(outbox[j].part.data))
                  => PayloadSequence(outbox[j].part.data)
                         > PayloadSequence(outbox[i].part.data)
        /\ outbox[j].cmd = "reply" =>
              PayloadSequence(outbox[j].part.data) = PayloadSequence(outbox[j].answers)

\* a meeting was issued, answered and then cancelled
C26_Witness ==
    /\ Len(outbox) = 3
    /\ outbox[1].cmd = "send"
    /\ outbox[2].cmd = "reply"
    /\ outbox[2].answers = outbox[1].part.data
    /\ outbox[3].cmd = "cancel"
    /\ PayloadUID(outbox[3].part.data) = PayloadUID(outbox[1].part.data)

\* the METHOD line of a payload
PayloadMethod(doc) == Get(doc.props, "METHOD").value.s

\* C27: the method parameter of the text/calendar part Send writes equals the
\* METHOD property of the payload: REQUEST for invite send, REPLY for invite
\* reply, CANCEL for invite cancel.
C27_MethodTagMatches ==
    \A j \in 1..Len(outbox) :
        /\ Has(outbox[j].part.data.props, "METHOD")
        /\ outbox[j].part.method = PayloadMethod(outbox[j].part.data)
        /\ outbox[j].part.method =
              (CASE outbox[j].cmd = "send" -> <<"REQUEST">>
                 [] outbox[j].cmd = "reply" -> <<"REPLY">>
                 [] outbox[j].cmd = "cancel" -> <<"CANCEL">>)

\* an invitation from elsewhere with a sequence number was answered, and a
\* cancellation and an invitation were sent
C27_Witness ==
    /\ Len(outbox) = 3
    /\ outbox[1].cmd = "reply"
    /\ outbox[1].answers \in ForeignInvitations
    /\ PayloadSequence(outbox[1].answers) = MaxSeq
    /\ outbox[2].cmd = "cancel"
    /\ outbox[3].cmd = "send"

\* what the tokens of a query say, read left to right: the criteria one
\* leading keyword (with its value token, if it takes one) adds, and how many
\* tokens that uses
ValueKeywords == {"FROM", "TO", "SUBJECT", "TEXT", "BODY", "SINCE", "BEFORE"}

IsKeyword(token, words) == Len(token) = 1 /\ ToUpperChar(token[1]) \in words

Uses(ts) == IF IsKeyword(ts[1], ValueKeywords) /\ Len(ts) >= 2 THEN 2 ELSE 1

HeaderOf(ts) ==
    IF Len(ts) < 2 THEN <<>>
    ELSE IF IsKeyword(ts[1], {"FROM"}) THEN <<HeaderField("From", ts[2])>>
    ELSE IF IsKeyword(ts[1], {"TO"}) THEN <<HeaderField("To", ts[2])>>
    ELSE IF IsKeyword(ts[1], {"SUBJECT"}) THEN <<HeaderField("Subject", ts[2])>>
    ELSE <<>>

AllKeywords ==
    ValueKeywords \cup {"UNSEEN", "UNREAD", "SEEN", "READ", "FLAGGED", "STARRED"}

TextOfTokens(ts) ==
    IF IsKeyword(ts[1], {"TEXT", "BODY"}) THEN (IF Len(ts) >= 2 THEN <<ts[2]>> ELSE <<>>)
    ELSE IF IsKeyword(ts[1], AllKeywords) THEN <<>>
    ELSE <<ts[1]>>

FlagOf(ts) ==
    IF IsKeyword(ts[1], {"SEEN", "READ"}) THEN <<"Seen">>
    ELSE IF IsKeyword(ts[1], {"FLAGGED", "STARRED"}) THEN <<"Flagged">>
    ELSE <<>>

NotFlagOf(ts) == IF IsKeyword(ts[1], {"UNSEEN", "UNREAD"}) THEN <<"Seen">> ELSE <<>>

\* the date bound a leading SINCE or BEFORE sets, or old
BoundOf(ts, word, old) ==
    IF IsKeyword(ts[1], {word}) /\ Len(ts) >= 2 /\ ~parseDate(ts[2]).err
    THEN parseDate(ts[2]).time
    ELSE old

RECURSIVE Expected(_, _)
Expected(ts, c) ==
    IF ts = <<>> THEN c
    ELSE Expected(SubSeq(ts, Uses(ts) + 1, Len(ts)),
                  [Header |-> c.Header \o HeaderOf(ts),
                   Text |-> c.Text \o TextOfTokens(ts),
                   Flag |-> c.Flag \o FlagOf(ts),
                   NotFlag |-> c.NotFlag \o NotFlagOf(ts),
                   Since |-> BoundOf(ts, "SINCE", c.Since),
                   Before |-> BoundOf(ts, "BEFORE", c.Before)])

\* the blank-separated tokens of a query, found by position
IsStart(q, k) == q[k] /= Blank /\ (k = 1 \/ q[k - 1] = Blank)

EndOf(q, k) ==
    CHOOSE e \in k..Len(q) :
        /\ \A m \in k..e : q[m] /= Blank
        /\ (e = Len(q) \/ q[e + 1] = Blank)

RECURSIVE TokensFrom(_, _)
TokensFrom(q, k) ==
    IF k > Len(q) THEN <<>>
    ELSE IF IsStart(q, k) THEN <<SubSeq(q, k, EndOf(q, k))>> \o TokensFrom(q, EndOf(q, k) + 1)
    ELSE TokensFrom(q, k + 1)

\* C28: parseSearchQuery never fails; the criteria are nil exactly when the
\* query without its surrounding blanks is ALL in any letter case; otherwise
\* the blank-separated tokens are read left to right, keywords in any letter
\* case: FROM, TO and SUBJECT followed by a token add a header criterion,
\* TEXT and BODY add the next token as a text term, UNSEEN/UNREAD add
\* not-Seen, SEEN/READ add Seen, FLAGGED/STARRED add Flagged, SINCE and
\* BEFORE set their date bound from the next token when it parses, and every
\* other token is a text term.
C28_SearchQuery ==
    search /= NoSearch =>
        LET ts == TokensFrom(search.query, 1)
        IN  /\ ~search.out.err
            /\ search.out.isNil <=> (Len(ts) = 1 /\ IsKeyword(ts[1], {"ALL"}))
            /\ ~search.out.isNil => search.out.criteria = Expected(ts, NoCriteria)

\* a query with a keyword in lower case and its value
C28_Witness ==
    /\ search.query = <<"from", Blank, "x">>
    /\ ~search.out.isNil
    /\ search.out.criteria.Header = <<HeaderField("From", <<"x">>)>>

\* the stored objects whose task has the UID
StoredWithUID(objs, uid) ==
    {k \in 1..Len(objs) : parseICalTask(objs[k].Data, localOff).task.UID = uid}

\* C29: on any task list, whatever the resource names, after CompleteTask
\* returns without error GetTask returns the task COMPLETED at 100 percent
\* with its completion instant set, after UncompleteTask it returns it
\* NEEDS-ACTION at 0 percent without completion instant, and one stored task
\* has that UID.
C29_ReadYourWrite ==
    (lastCmd.op \in {"done", "undo"} /\ lastCmd.state = "ok") =>
        LET g == findTaskByUID(objects, lastCmd.uid, localOff)
        IN  /\ g.state = "ok"
            /\ lastCmd.op = "done" =>
                  /\ g.task.Status = TaskStatusCompleted
                  /\ g.task.Percent = 100
                  /\ ~IsZero(g.task.Completed)
            /\ lastCmd.op = "undo" =>
                  /\ g.task.Status = TaskStatusNeedsAction
                  /\ g.task.Percent = 0
                  /\ IsZero(g.task.Completed)
            /\ Cardinality(StoredWithUID(objects, lastCmd.uid)) = 1

\* the same on lists whose tasks were all stored under <uid>.ics
C29_ReadYourWriteOwnNames ==
    (\A k \in 1..Len(objects) :
        objects[k].Path = parseICalTask(objects[k].Data, localOff).task.UID \o <<".ics">>)
    => C29_ReadYourWrite

\* what GetTask returns of the fields done and undo do not set
FrameOf(t) ==
    [UID |-> t.UID, Summary |-> t.Summary, Description |-> t.Description,
     Due |-> t.Due.t, Start |-> t.Start.t, Priority |-> t.Priority,
     Categories |-> t.Categories]

\* C30: CompleteTask and UncompleteTask leave UID, summary, description, due,
\* start, priority and categories of the task, as GetTask returns them, as
\* they were, however often they are repeated, and change no other task.
C30_Frame ==
    [][(lastCmd'.op \in {"done", "undo"} /\ lastCmd'.state = "ok") =>
          \A uid \in KnownUIDs :
              LET b == findTaskByUID(objects, uid, localOff)
                  a == findTaskByUID(objects', uid, localOff)
              IN  /\ a.state = "ok"
                  /\ IF uid = lastCmd'.uid
                     THEN FrameOf(a.task) = FrameOf(b.task)
                     ELSE a.task = b.task]_vars

\* the same for tasks with at most one category
C30_FrameOneCategory ==
    [][(lastCmd'.op \in {"done", "undo"} /\ lastCmd'.state = "ok"
        /\ Len(findTaskByUID(objects, lastCmd'.uid, localOff).task.Categories) <= 1) =>
          \A uid \in KnownUIDs :
              LET b == findTaskByUID(objects, uid, localOff)
                  a == findTaskByUID(objects', uid, localOff)
              IN  /\ a.state = "ok"
                  /\ IF uid = lastCmd'.uid
                     THEN FrameOf(a.task) = FrameOf(b.task)
                     ELSE a.task = b.task]_vars

====
